---- MODULE Spec2Model ----
(***************************************************************************)
(* Tool-call broker, run/session protocol engine and approval gate of the  *)
(* browsing-with-copilot-sdk repository.                                    *)
(*                                                                          *)
(* Backend (src/README.md lines 112-982 hold the backend's server source): *)
(* session registry, turn queue, RunContext, pending tool calls with their *)
(* deadline timers, cancelRun.  Texts (selectors, labels) are sequences of *)
(* words, so that containment tests are computed and not assumed.          *)
(***************************************************************************)
EXTENDS Integers, Sequences, FiniteSets, TLC

\* ------------------------------------------------------------------ bounds
MaxObjs == 2
MaxTurns == 2
MaxActions == 3
MaxCancels == 2
MaxEvents == 1
MaxSelects == 1
MaxUi == 2
MaxInbox == 1
BrokerTurns == 1
BrokerCancels == 1
BrokerActions == 2

\* --------------------------------------------------------------- constants
NoObj == 0
NoRun == 0
NoAction == 0

SessionIds == {"s1"}
Objs == 1..MaxObjs
RunIds == 1..MaxTurns
ActionIds == 1..MaxActions

ErrorCodes == {"EXTENSION_NOT_READY", "NO_ACTIVE_TAB", "PERMISSION_DENIED",
               "NOT_FOUND", "TIMEOUT", "CANCELLED"}

\* Values an inbound tool_result carries in its error field here: two codes of
\* the taxonomy and one value outside it.
WireErrors == {"PERMISSION_DENIED", "NOT_FOUND", "SOMETHING_ELSE"}

\* Texts are sequences of words.
Selectors == {<<>>, <<"input", "q">>}

Cand1 == [id |-> "cand-1", label |-> <<"search">>, selector |-> <<"input", "q">>]
Cand2 == [id |-> "cand-2", label |-> <<"delete", "account">>, selector |-> <<"button", "nth1">>]

\* data fields of a find tool_result
FindData == {<<>>, <<Cand1>>, <<Cand1, Cand2>>}

CandIds == {"cand-1", "cand-9"}

VARIABLES
  sessions,            \* registry: session id -> SessionState object, or NoObj
  objPhase,            \* per object: "free", "creating" (awaiting createSession), "live",
                       \* "closing" (teardownSession awaiting destroy), "gone"
  run,                 \* state.run: the id of the open RunContext, or NoRun
  runCancelled,        \* RunContext.cancelled, by run id
  runFinalSent,        \* RunContext.finalSent, by run id
  runSteps,            \* RunContext.steps, by run id
  runOwner,            \* the object whose handleUserMessage opened the run
  queue,               \* turns chained on state.queue that have not started
  keepAlive,           \* per object: the keep-alive interval is armed
  pendingTools,        \* state.pendingTools: per object, the pending action ids
  callTool,            \* PendingToolCall.tool by action id ("none": never issued)
  callOwner,           \* the object whose tool handler awaits the call
  timers,              \* action ids whose deadline timer is armed
  lastFindCandidates,  \* state.lastFindCandidates, per object
  abortOps,            \* cancelRun calls awaiting copilotSession.abort(), by run open at receipt
  numMsgs,             \* user_message envelopes routed
  numRuns,             \* runs opened
  numActions,          \* tool invocations made by the driver
  numCancels,          \* cancel envelopes routed
  numEvents,           \* optional driver/UI events delivered
  numSelects,          \* browser_select_candidate invocations that narrowed the candidates
  settled,             \* by action id: the outcomes passed to resolve/reject, in order
  finals,              \* by run id: the assistant_final texts sent while it was state.run
  cancelDone,          \* by run id: cancelRun calls received in it that have returned or thrown
  requests,            \* by action id: the tool_request sent, or NoReq
  lastSent,            \* the latest assistant_delta / step_event / tool_request sent, or NoMsg
  ws                   \* the connection's readyState: "open", "closing", "closed"

\* the extension's background worker, the side panel and the active tab
VARIABLES
  autoRun,             \* state.autoRun
  pendingAction,       \* state.pendingAction: its action id, or NoAction
  pendingToolRequests, \* the keys of the pendingToolRequests map
  extRecv,             \* tool_request envelopes the socket has delivered
  hudWait,             \* onToolRequest calls awaiting their first updateHud
  denyWait,            \* handleApproval rejections awaiting updateHud
  execPage,            \* by action id: executeToolRequest calls awaiting the tab
  execReport,          \* by action id: outcomes whose tool_result is not sent yet
  uiPending,           \* the side panel's uiState.pendingAction
  toBackend,           \* envelopes on the socket towards the backend
  numUi,               \* Approve / Reject / Stop presses
  delivered,           \* by action id: commands handed to handleToolMessage
  clicked,             \* by action id: target.click() calls made for it
  gateLog,             \* by action id: requiresManualApproval's answer and autoRun then,
                       \* and whether stopRun was called while it was the pending action
  approvedRecv,        \* action ids handleApproval took an approval for
  rejectedRecv         \* action ids handleApproval took a rejection for

\* a document under inspection and the latest calls made on it and by the driver
VARIABLES
  doc,                 \* the document buildSelector and findCandidates are applied to
  built,               \* the latest buildSelector / findCandidates call and its result
  lastReturn,          \* what the latest tool handler call returned or threw to the driver
  extSocket            \* the background worker's WebSocket: "open" or "closed"

auxVars == <<doc, built, lastReturn, extSocket>>

bvars == <<sessions, objPhase, run, runCancelled, runFinalSent, runSteps, runOwner,
          queue, keepAlive, pendingTools, callTool, callOwner, timers,
          lastFindCandidates, abortOps, numMsgs, numRuns, numActions, numCancels,
          numEvents, numSelects, settled, finals, cancelDone, requests, lastSent, ws>>

\* the backend's variables other than the connection
bcore == <<sessions, objPhase, run, runCancelled, runFinalSent, runSteps, runOwner,
           queue, keepAlive, pendingTools, callTool, callOwner, timers,
           lastFindCandidates, abortOps, numMsgs, numRuns, numActions, numCancels,
           numEvents, numSelects, settled, finals, cancelDone, requests, lastSent>>

extVars == <<autoRun, pendingAction, pendingToolRequests, extRecv, hudWait, denyWait,
             execPage, execReport, uiPending, toBackend, numUi, delivered, clicked,
             gateLog, approvedRecv, rejectedRecv>>

vars == <<sessions, objPhase, run, runCancelled, runFinalSent, runSteps, runOwner,
          queue, keepAlive, pendingTools, callTool, callOwner, timers,
          lastFindCandidates, abortOps, numMsgs, numRuns, numActions, numCancels,
          numEvents, numSelects, settled, finals, cancelDone, requests, lastSent, ws,
          autoRun, pendingAction, pendingToolRequests, extRecv, hudWait, denyWait,
          execPage, execReport, uiPending, toBackend, numUi, delivered, clicked,
          gateLog, approvedRecv, rejectedRecv, doc, built, lastReturn, extSocket>>

NoReq == [tool |-> "none"]
NoMsg == [type |-> "none"]
NoCall == [op |-> "none"]
NoReturn == [tool |-> "none", ok |-> FALSE, error |-> "none", candidates |-> <<>>]

\* ------------------------------------------------------------ pure helpers

\* toolTimeoutMs
TOOL_TIMEOUT_MS == 5000
TOOL_TIMEOUT_NAVIGATE_MS == 30000
TOOL_TIMEOUT_ACTION_MS == 60000

toolTimeoutMs(tool) ==
  IF tool = "browser_navigate" THEN TOOL_TIMEOUT_NAVIGATE_MS
  ELSE IF tool = "browser_click" \/ tool = "browser_type" THEN TOOL_TIMEOUT_ACTION_MS
  ELSE TOOL_TIMEOUT_MS

toErrorCode(value) ==
  IF value \in ErrorCodes THEN value ELSE "EXTENSION_NOT_READY"

\* a variant that only refuses an empty candidate list
ensureSomeCandidateBeforeAction(o, tool) ==
  \/ tool = "browser_find"
  \/ Len(lastFindCandidates[o]) >= 1

\* ensureSingleCandidateBeforeAction: TRUE when it returns, FALSE when it throws
ensureSingleCandidateBeforeAction(o, tool) ==
  \/ tool = "browser_find"
  \/ Len(lastFindCandidates[o]) = 1

\* The RunContext flag a sender reads: state.run && state.run.cancelled
RunIsCancelled(o) == run[o] # NoRun /\ runCancelled[run[o]]

\* the guard of the wireSessionEvents listeners and of the keep-alive tick
EventSuppressed(o) == run[o] = NoRun \/ runCancelled[run[o]]

\* an assistant_delta / step_event as it leaves send(): its type, the run open
\* at that moment and that run's flags
OutMsg(type, text, o) ==
  [type |-> type, text |-> text, run |-> run[o], cancelled |-> RunIsCancelled(o),
   finalSent |-> (run[o] # NoRun /\ runFinalSent[run[o]])]

\* send: the message leaves only through an open socket
Send(msg) == IF ws = "open" THEN msg ELSE lastSent

\* appendStep: no-op without a run; else push onto run.steps and sendStep
StepsAfterAppend(o, text) ==
  IF run[o] = NoRun THEN runSteps
  ELSE [runSteps EXCEPT ![run[o]] = Append(@, text)]

SentAfterAppend(o) ==
  IF run[o] = NoRun THEN lastSent ELSE Send(OutMsg("step_event", "step", o))

\* a variant that leaves the timers armed
ClearTimeoutKeepsArmed(ts, as) == ts

\* clearTimeout(pending.timer) for a set of calls
ClearTimeout(ts, as) == ts \ as

\* resolve / reject of a call's promise with an outcome
Settle(st, as, outcome) ==
  [a \in ActionIds |-> IF a \in as THEN Append(st[a], outcome) ELSE st[a]]

\* the driver is still producing events for the run open on o: it has not been
\* cancelled, or a cancelRun is still awaiting abort()
DriverActive(o) ==
  /\ objPhase[o] \in {"live", "closing"}
  /\ run[o] # NoRun
  /\ (~runCancelled[run[o]] \/ abortOps[run[o]] > 0)

\* the object a new SessionState is allocated in
FirstFree ==
  CHOOSE o \in Objs : objPhase[o] = "free" /\ \A p \in Objs : objPhase[p] = "free" => o <= p

\* candidateFromUnknown / parseFindResult: keep the well-formed candidates
candidateFromUnknown(item) ==
  /\ DOMAIN item = {"id", "label", "selector"}
  /\ item.id \in STRING

parseFindResult(data) == SelectSeq(data, candidateFromUnknown)

\* --------------------------------------------------------------- the turn

\* handleUserMessage up to its await of sendAndWait: open the RunContext, reset
\* the candidates, appendStep("Started run"), arm the keep-alive interval.
StartRun(o) ==
  LET r == numRuns + 1 IN
  /\ numRuns' = r
  /\ run' = [run EXCEPT ![o] = r]
  /\ runOwner' = [runOwner EXCEPT ![r] = o]
  /\ lastFindCandidates' = [lastFindCandidates EXCEPT ![o] = <<>>]
  /\ runSteps' = [runSteps EXCEPT ![r] = <<"step">>]
  /\ lastSent' = Send([type |-> "step_event", text |-> "step", run |-> r,
                       cancelled |-> FALSE, finalSent |-> FALSE])
  /\ keepAlive' = [keepAlive EXCEPT ![o] = TRUE]

\* routeMessage, case user_message: getSessionState, then chain the turn on the
\* session's queue.  An unseen session id starts createSessionState, which
\* awaits client.createSession before it registers the object.
RouteUserMessage(s) ==
  /\ numMsgs' = numMsgs + 1
  /\ IF sessions[s] # NoObj
       THEN LET o == sessions[s] IN
            IF run[o] = NoRun
              THEN /\ StartRun(o)
                   /\ UNCHANGED <<queue, objPhase>>
              ELSE /\ queue' = [queue EXCEPT ![o] = @ + 1]
                   /\ UNCHANGED <<run, numRuns, runOwner, lastFindCandidates, runSteps,
                                  lastSent, keepAlive, objPhase>>
       ELSE /\ \E o \in Objs : objPhase[o] = "free"
            /\ objPhase' = [objPhase EXCEPT ![FirstFree] = "creating"]
            /\ UNCHANGED <<run, numRuns, runOwner, lastFindCandidates, runSteps,
                           lastSent, keepAlive, queue>>
  /\ UNCHANGED <<sessions, runCancelled, runFinalSent, pendingTools, callTool, callOwner,
                 timers, abortOps, numActions, numCancels, numEvents, numSelects, settled, finals,
                 cancelDone, requests, ws>>

\* createSessionState after client.createSession resolved: wireSessionEvents,
\* sessions.set, return; routeMessage then chains handleUserMessage on the new
\* object's own queue, which is idle, so the turn starts.
CreateSessionDone(s, o) ==
  /\ objPhase[o] = "creating"
  /\ objPhase' = [objPhase EXCEPT ![o] = "live"]
  /\ sessions' = [sessions EXCEPT ![s] = o]
  /\ StartRun(o)
  /\ UNCHANGED <<runCancelled, runFinalSent, queue, pendingTools, callTool, callOwner,
                 timers, abortOps, ws, numMsgs, numActions, numCancels, numEvents, numSelects, settled,
                 finals, cancelDone, requests>>

\* createSessionState when client.createSession rejects: routeMessage throws,
\* the message handler logs it, nothing is registered.
CreateSessionFail(o) ==
  /\ objPhase[o] = "creating"
  /\ objPhase' = [objPhase EXCEPT ![o] = "free"]
  /\ UNCHANGED <<sessions, run, runCancelled, runFinalSent, runSteps, runOwner, queue,
                 keepAlive, pendingTools, callTool, callOwner, timers, lastFindCandidates,
                 abortOps, ws, numMsgs, numRuns, numActions, numCancels, numEvents, numSelects, settled,
                 finals, cancelDone, requests, lastSent>>

\* handleUserMessage after sendAndWait resolved: whether the final answer is sent
FinalGuardComplete(r) == ~runCancelled[r] /\ ~runFinalSent[r]

\* handleUserMessage's catch: whether the "Failed: ..." final is sent
FinalGuardError(r) == ~runCancelled[r]

\* the end of handleUserMessage: the final (when sent), then finally { clear the
\* keep-alive, state.run = null }, and the queue starts the next chained turn.
FinishTurn(o, sendIt, text) ==
  LET r == run[o] IN
  /\ objPhase[o] \in {"live", "closing", "gone"}
  /\ r # NoRun
  /\ finals' = IF sendIt /\ ws = "open" THEN [finals EXCEPT ![r] = Append(@, text)] ELSE finals
  /\ runFinalSent' = IF sendIt THEN [runFinalSent EXCEPT ![r] = TRUE] ELSE runFinalSent
  /\ IF queue[o] > 0
       THEN /\ queue' = [queue EXCEPT ![o] = @ - 1]
            /\ StartRun(o)
       ELSE /\ run' = [run EXCEPT ![o] = NoRun]
            /\ keepAlive' = [keepAlive EXCEPT ![o] = FALSE]
            /\ UNCHANGED <<queue, numRuns, runOwner, lastFindCandidates, runSteps, lastSent>>
  /\ UNCHANGED <<sessions, objPhase, runCancelled, pendingTools, callTool, callOwner,
                 timers, abortOps, ws, numMsgs, numActions, numCancels, numEvents, numSelects, settled,
                 cancelDone, requests>>

DriverComplete(o) == run[o] # NoRun /\ FinishTurn(o, FinalGuardComplete(run[o]), "answer")

DriverError(o) == run[o] # NoRun /\ FinishTurn(o, FinalGuardError(run[o]), "Failed")

\* ----------------------------------------------------------- cancellation

\* a variant whose loop stops after the first pending call
CancelTargetsFirstOnly(o) ==
  {a \in pendingTools[o] : \A b \in pendingTools[o] : a <= b}

\* the calls cancelRun's loop over state.pendingTools visits
CancelTargets(o) == pendingTools[o]

\* cancelRun up to its await of copilotSession.abort(): flag the run, reject and
\* clear every pending call.  Without a session or a run it returns at once.
RouteCancel(s) ==
  /\ LET o == sessions[s] IN
     IF o = NoObj \/ run[o] = NoRun
       THEN UNCHANGED <<numCancels, runCancelled, settled, timers, pendingTools, abortOps>>
       ELSE /\ numCancels' = numCancels + 1
            /\ runCancelled' = [runCancelled EXCEPT ![run[o]] = TRUE]
            /\ settled' = Settle(settled, CancelTargets(o), "CANCELLED")
            /\ timers' = ClearTimeout(timers, CancelTargets(o))
            /\ pendingTools' = [pendingTools EXCEPT ![o] = {}]
            /\ abortOps' = [abortOps EXCEPT ![run[o]] = @ + 1]
  /\ UNCHANGED <<sessions, objPhase, run, runFinalSent, runSteps, runOwner, queue,
                 keepAlive, callTool, callOwner, lastFindCandidates, ws, numMsgs, numRuns,
                 numActions, numEvents, numSelects, finals, cancelDone, requests, lastSent>>

\* cancelRun after abort() settled, for a cancel received while run r was open:
\* it reads state.run again.  With state.run null the read of .finalSent throws
\* (the message handler logs it); else the "Cancelled by user." final is sent
\* unless the run now open already has finalSent.
AbortDone(r) ==
  LET o == runOwner[r]
      cur == run[o] IN
  /\ abortOps[r] > 0
  /\ abortOps' = [abortOps EXCEPT ![r] = @ - 1]
  /\ cancelDone' = [cancelDone EXCEPT ![r] = @ + 1]
  /\ IF cur # NoRun /\ ~runFinalSent[cur]
       THEN /\ finals' = IF ws = "open"
                          THEN [finals EXCEPT ![cur] = Append(@, "Cancelled by user.")]
                          ELSE finals
            /\ runFinalSent' = [runFinalSent EXCEPT ![cur] = TRUE]
       ELSE UNCHANGED <<finals, runFinalSent>>
  /\ UNCHANGED <<sessions, objPhase, run, runCancelled, runSteps, runOwner, queue,
                 keepAlive, pendingTools, callTool, callOwner, timers, lastFindCandidates,
                 ws, numMsgs, numRuns, numActions, numCancels, numEvents, numSelects, settled, requests,
                 lastSent>>

\* ------------------------------------------------------- driver listeners

\* the listeners wireSessionEvents subscribed are still in state.unsubs
Wired(o) == objPhase[o] = "live"

\* assistant.message_delta listener
DriverDelta(o) ==
  /\ DriverActive(o)
  /\ Wired(o)
  /\ lastSent' = IF EventSuppressed(o) THEN lastSent
                 ELSE Send(OutMsg("assistant_delta", "delta", o))
  /\ UNCHANGED <<sessions, objPhase, run, runCancelled, runFinalSent, runSteps, runOwner,
                 queue, keepAlive, pendingTools, callTool, callOwner, timers,
                 lastFindCandidates, abortOps, ws, numMsgs, numRuns, numActions, numCancels,
                 numEvents, numSelects, settled, finals, cancelDone, requests>>

\* tool.execution_start / tool.execution_complete listeners
DriverToolEvent(o) ==
  /\ DriverActive(o)
  /\ Wired(o)
  /\ IF EventSuppressed(o)
       THEN UNCHANGED <<numEvents, runSteps, lastSent>>
       ELSE /\ numEvents' = numEvents + 1
            /\ runSteps' = StepsAfterAppend(o, "step")
            /\ lastSent' = SentAfterAppend(o)
  /\ UNCHANGED <<sessions, objPhase, run, runCancelled, runFinalSent, runOwner,
                 queue, keepAlive, pendingTools, callTool, callOwner, timers,
                 lastFindCandidates, abortOps, ws, numMsgs, numRuns, numActions, numCancels,
                 numSelects, settled, finals, cancelDone, requests>>

\* the keep-alive interval's callback
KeepAliveTick(o) ==
  /\ keepAlive[o]
  /\ lastSent' = IF EventSuppressed(o) THEN lastSent
                 ELSE Send(OutMsg("assistant_delta", "...", o))
  /\ UNCHANGED <<sessions, objPhase, run, runCancelled, runFinalSent, runSteps, runOwner,
                 queue, keepAlive, pendingTools, callTool, callOwner, timers,
                 lastFindCandidates, abortOps, ws, numMsgs, numRuns, numActions, numCancels,
                 numEvents, numSelects, settled, finals, cancelDone, requests>>

\* the step text `User ${decision} action ${message.actionId}`
ApprovalStep(a, approved) ==
  IF approved
    THEN <<"User approved action 1", "User approved action 2", "User approved action 3",
           "User approved action 4">>[a]
    ELSE <<"User rejected action 1", "User rejected action 2", "User rejected action 3",
           "User rejected action 4">>[a]

\* routeMessage, case user_approval
RouteUserApproval(s, a, approved) ==
  LET o == sessions[s] IN
  /\ IF o = NoObj \/ EventSuppressed(o)
       THEN UNCHANGED <<numEvents, runSteps, lastSent>>
       ELSE /\ numEvents' = numEvents + 1
            /\ runSteps' = StepsAfterAppend(o, ApprovalStep(a, approved))
            /\ lastSent' = SentAfterAppend(o)
  /\ UNCHANGED <<sessions, objPhase, run, runCancelled, runFinalSent, runOwner,
                 queue, keepAlive, pendingTools, callTool, callOwner, timers,
                 lastFindCandidates, abortOps, ws, numMsgs, numRuns, numActions, numCancels,
                 numSelects, settled, finals, cancelDone, requests>>

\* ------------------------------------------------------------- the broker

\* requestToolRoundTrip: throw unless the socket is open; else record the
\* PendingToolCall under the action id, arm its deadline timer and send the
\* tool_request.
\* a variant that records and sends the call whatever the socket's readyState
requestToolRoundTripAnySocket(o, a, tool, arg, uiLabel) ==
  /\ pendingTools' = [pendingTools EXCEPT ![o] = @ \cup {a}]
  /\ timers' = timers \cup {a}
  /\ callTool' = [callTool EXCEPT ![a] = tool]
  /\ callOwner' = [callOwner EXCEPT ![a] = o]
  /\ requests' = [requests EXCEPT ![a] =
                    [tool |-> tool, arg |-> arg, label |-> uiLabel,
                     timeoutMs |-> toolTimeoutMs(tool)]]
  /\ lastSent' = OutMsg("tool_request", tool, o)

requestToolRoundTrip(o, a, tool, arg, uiLabel) ==
  IF ws # "open"
    THEN UNCHANGED <<pendingTools, timers, callTool, callOwner, requests, lastSent>>
    ELSE /\ pendingTools' = [pendingTools EXCEPT ![o] = @ \cup {a}]
         /\ timers' = timers \cup {a}
         /\ callTool' = [callTool EXCEPT ![a] = tool]
         /\ callOwner' = [callOwner EXCEPT ![a] = o]
         /\ requests' = [requests EXCEPT ![a] =
                           [tool |-> tool, arg |-> arg, label |-> uiLabel,
                            timeoutMs |-> toolTimeoutMs(tool)]]
         /\ lastSent' = OutMsg("tool_request", tool, o)

\* a tool handler that throws or returns before requestToolRoundTrip; the
\* toolCallId it was given is never used
ToolReturnsEarly ==
  UNCHANGED <<numActions, pendingTools, timers, callTool, callOwner, requests, runSteps,
              lastSent>>

\* appendStep followed by requestToolRoundTrip
StepThenRequest(o, a, tool, arg, uiLabel) ==
  /\ numActions' = a
  /\ runSteps' = StepsAfterAppend(o, "step")
  /\ requestToolRoundTrip(o, a, tool, arg, uiLabel)

\* what no tool handler touches before its await
ToolFrame ==
  UNCHANGED <<sessions, objPhase, run, runCancelled, runFinalSent, runOwner, queue,
              keepAlive, abortOps, ws, numMsgs, numRuns, numCancels, numEvents, settled,
              finals, cancelDone>>

\* browser_navigate handler
ToolNavigate(o, url) ==
  LET a == numActions + 1 IN
  /\ DriverActive(o)
  /\ IF url = <<>>
       THEN ToolReturnsEarly
       ELSE StepThenRequest(o, a, "browser_navigate", url, <<"navigating", "to">> \o url)
  /\ UNCHANGED <<lastFindCandidates, numSelects>>
  /\ ToolFrame

\* browser_find handler
ToolFind(o, query) ==
  LET a == numActions + 1 IN
  /\ DriverActive(o)
  /\ IF query = <<>>
       THEN ToolReturnsEarly
       ELSE StepThenRequest(o, a, "browser_find", query, <<"finding">> \o query)
  /\ UNCHANGED <<lastFindCandidates, numSelects>>
  /\ ToolFrame

\* a variant that filters the candidates by id before it tests for a match
ToolSelectCandidateFilters(o, id) ==
  LET hits == SelectSeq(lastFindCandidates[o], LAMBDA c : c.id = id) IN
  /\ DriverActive(o)
  /\ lastFindCandidates' = [lastFindCandidates EXCEPT ![o] = hits]
  /\ IF hits = <<>>
       THEN UNCHANGED <<numSelects, runSteps, lastSent>>
       ELSE /\ numSelects' = numSelects + 1
            /\ runSteps' = StepsAfterAppend(o, "step")
            /\ lastSent' = SentAfterAppend(o)
  /\ UNCHANGED <<numActions, pendingTools, timers, callTool, callOwner, requests>>
  /\ ToolFrame

\* browser_select_candidate handler
ToolSelectCandidate(o, id) ==
  LET hits == SelectSeq(lastFindCandidates[o], LAMBDA c : c.id = id) IN
  /\ DriverActive(o)
  /\ IF hits = <<>>
       THEN UNCHANGED <<numSelects, lastFindCandidates, runSteps, lastSent>>
       ELSE /\ numSelects' = numSelects + 1
            /\ lastFindCandidates' = [lastFindCandidates EXCEPT ![o] = <<hits[1]>>]
            /\ runSteps' = StepsAfterAppend(o, "step")
            /\ lastSent' = SentAfterAppend(o)
  /\ UNCHANGED <<numActions, pendingTools, timers, callTool, callOwner, requests>>
  /\ ToolFrame

\* browser_highlight, browser_click and browser_type handlers: the candidate
\* check, the empty-selector check, appendStep, requestToolRoundTrip
ToolTarget(o, tool, selector) ==
  LET a == numActions + 1
      verb == IF tool = "browser_highlight" THEN "highlighting"
              ELSE IF tool = "browser_click" THEN "clicking" ELSE "typing" IN
  /\ DriverActive(o)
  /\ IF ~ensureSingleCandidateBeforeAction(o, tool) \/ selector = <<>>
       THEN ToolReturnsEarly
       ELSE StepThenRequest(o, a, tool, selector, <<verb>> \o selector)
  /\ UNCHANGED <<lastFindCandidates, numSelects>>
  /\ ToolFrame

\* a variant that leaves the expired call's entry in the map
DeleteOnExpiryKeeps(pt, o, a) == pt

\* state.pendingTools.delete(actionId) in the timer's callback
DeleteOnExpiry(pt, o, a) == [pt EXCEPT ![o] = @ \ {a}]

\* the deadline timer's callback
Timeout(a) ==
  /\ a \in timers
  /\ timers' = timers \ {a}
  /\ pendingTools' = DeleteOnExpiry(pendingTools, callOwner[a], a)
  /\ settled' = Settle(settled, {a}, "TIMEOUT")
  /\ UNCHANGED <<sessions, objPhase, run, runCancelled, runFinalSent, runSteps, runOwner,
                 queue, keepAlive, callTool, callOwner, lastFindCandidates, abortOps,
                 ws, numMsgs, numRuns, numActions, numCancels, numEvents, numSelects, finals, cancelDone,
                 requests, lastSent>>

\* a variant that finds a call under its action id whether or not it is settled
PendingLookupIssued(o, a) == callTool[a] # "none" /\ callOwner[a] = o

\* state.pendingTools.get(message.actionId): whether an entry is found
PendingLookup(o, a) == a \in pendingTools[o]

\* onToolResult, with the continuation of the tool handler that awaited the
\* call: browser_find stores the parsed candidates and appends a step,
\* browser_navigate empties the candidates.
onToolResult(s, a, ok, data, error) ==
  LET o == sessions[s] IN
  IF o = NoObj \/ ~PendingLookup(o, a)
    THEN UNCHANGED bvars
    ELSE /\ timers' = ClearTimeout(timers, {a})
         /\ pendingTools' = [pendingTools EXCEPT ![o] = @ \ {a}]
         /\ settled' = Settle(settled, {a}, IF ok THEN "ok" ELSE toErrorCode(error))
         /\ IF ok /\ callTool[a] = "browser_find"
              THEN /\ lastFindCandidates' = [lastFindCandidates EXCEPT ![o] = parseFindResult(data)]
                   /\ runSteps' = StepsAfterAppend(o, "step")
                   /\ lastSent' = SentAfterAppend(o)
              ELSE IF ok /\ callTool[a] = "browser_navigate"
              THEN /\ lastFindCandidates' = [lastFindCandidates EXCEPT ![o] = <<>>]
                   /\ UNCHANGED <<runSteps, lastSent>>
              ELSE UNCHANGED <<lastFindCandidates, runSteps, lastSent>>
         /\ UNCHANGED <<sessions, objPhase, run, runCancelled, runFinalSent, runOwner,
                        queue, keepAlive, callTool, callOwner, abortOps, ws, numMsgs, numRuns,
                        numActions, numCancels, numEvents, numSelects, finals, cancelDone, requests>>

\* ---------------------------------------------------------------- the page
\* The content script (src/extension/vite.config.ts holds it in lines 34-449).
\* A document is a sequence of elements in document order; an element names its
\* parent by position, 0 for body (whose parent is html, -1).  An attribute is a
\* sequence of words (<<>>: absent); containment is containment of a run of
\* words.

LowerWord(w) ==
  CASE w = "Delete" -> "delete"
    [] w = "Submit" -> "submit"
    [] w = "Search" -> "search"
    [] w = "Go" -> "go"
    [] OTHER -> w

\* normalizeText: lower case (a sequence of words has no blanks to trim)
normalizeText(t) == [i \in 1..Len(t) |-> LowerWord(t[i])]

\* String.prototype.includes
Includes(hay, needle) ==
  \E i \in 0..(Len(hay) - Len(needle)) : SubSeq(hay, i + 1, i + Len(needle)) = needle

isVisible(e) == e.visible

getElementLabel(e) ==
  IF e.aria # <<>> THEN e.aria
  ELSE IF e.text # <<>> THEN e.text
  ELSE IF e.tag = "input" /\ e.value # <<>> THEN e.value
  ELSE IF e.placeholder # <<>> THEN e.placeholder
  ELSE IF e.name # <<>> THEN e.name
  ELSE <<e.tag>>

\* parentElement of node i (0: body, -1: html, -2: null)
ParentOf(page, i) == IF i = -1 THEN -2 ELSE IF i = 0 THEN -1 ELSE page[i].parent

\* tagName.toLowerCase() of node i
TagOf(page, i) == IF i = -1 THEN "html" ELSE IF i = 0 THEN "body" ELSE page[i].tag

\* the position of node i among the children of its parent that have its tag
NthOfType(page, i) ==
  IF i <= 0 THEN 1
  ELSE Cardinality({j \in 1..i : page[j].parent = page[i].parent /\ page[j].tag = page[i].tag})

NthWord(k) == <<"1", "2", "3", "4", "5", "6", "7", "8", "9", "10", "11", "12">>[k]

\* the segment `tag:nth-of-type(index)` of node i
Segment(page, i) == <<TagOf(page, i), "nth-of-type", NthWord(NthOfType(page, i))>>

\* whether node i matches a chain of nth-of-type segments joined by ` > `
RECURSIVE MatchesPath(_, _, _)
MatchesPath(page, i, sel) ==
  /\ i >= -1
  /\ SubSeq(sel, Len(sel) - 2, Len(sel)) = Segment(page, i)
  /\ \/ Len(sel) = 3
     \/ /\ Len(sel) > 4
        /\ sel[Len(sel) - 3] = ">"
        /\ MatchesPath(page, ParentOf(page, i), SubSeq(sel, 1, Len(sel) - 4))

\* whether element i matches a selector of one of the forms buildSelector emits
Matches(page, i, sel) ==
  LET e == page[i] IN
  IF Len(sel) = 2 /\ sel[1] = "#" THEN e.id = sel[2]
  ELSE IF Len(sel) >= 3 /\ sel[2] = "name" THEN e.tag = sel[1] /\ e.name = SubSeq(sel, 3, Len(sel))
  ELSE IF Len(sel) >= 3 /\ sel[2] = "aria-label" THEN e.tag = sel[1] /\ e.aria = SubSeq(sel, 3, Len(sel))
  ELSE IF Len(sel) = 3 /\ sel[2] = "data-testid" THEN e.tag = sel[1] /\ e.testid = sel[3]
  ELSE IF Len(sel) = 3 /\ sel[2] = "role" THEN e.tag = sel[1] /\ e.role = <<sel[3]>>
  ELSE IF Len(sel) >= 3 /\ sel[2] = "nth-of-type" THEN MatchesPath(page, i, sel)
  ELSE FALSE

querySelectorAll(page, sel) == {i \in 1..Len(page) : Matches(page, i, sel)}

isUniqueSelector(page, sel) == Cardinality(querySelectorAll(page, sel)) = 1

\* getTarget: document.querySelector, the first match in document order, 0 for null
getTarget(page, sel) ==
  IF querySelectorAll(page, sel) = {} THEN 0
  ELSE CHOOSE i \in querySelectorAll(page, sel) : \A j \in querySelectorAll(page, sel) : i <= j

\* buildSelector's loop: current is the node to prepend, segments the chain so
\* far, n its number of segments
RECURSIVE SegmentPath(_, _, _, _)
SegmentPath(page, current, segments, n) ==
  IF n >= 5 \/ ParentOf(page, current) = -2 THEN segments
  ELSE LET selector == IF segments = <<>> THEN Segment(page, current)
                       ELSE Segment(page, current) \o <<">">> \o segments IN
       IF isUniqueSelector(page, selector) THEN selector
       ELSE SegmentPath(page, ParentOf(page, current), selector, n + 1)

buildSelector(page, i) ==
  LET e == page[i]
      byId == <<"#", e.id>>
      byName == <<e.tag, "name">> \o e.name
      byAria == <<e.tag, "aria-label">> \o e.aria
      testId == IF e.testid # "" THEN e.testid ELSE e.testid2
      byTestId == <<e.tag, "data-testid", testId>>
      byRole == <<e.tag, "role">> \o e.role IN
  IF e.id # "" /\ isUniqueSelector(page, byId) THEN byId
  ELSE IF e.name # <<>> /\ isUniqueSelector(page, byName) THEN byName
  ELSE IF e.aria # <<>> /\ isUniqueSelector(page, byAria) THEN byAria
  ELSE IF testId # "" /\ isUniqueSelector(page, byTestId) THEN byTestId
  ELSE IF e.role # <<>> /\ isUniqueSelector(page, byRole) THEN byRole
  ELSE SegmentPath(page, i, <<>>, 0)

Score(cond, points) == IF cond THEN points ELSE 0

RECURSIVE TokenScore(_, _, _, _, _, _)
TokenScore(tokens, label, name, placeholder, role, href) ==
  IF tokens = <<>> THEN 0
  ELSE LET t == <<Head(tokens)>> IN
       Score(Includes(label, t), 15)
       + Score(Includes(name, t) \/ Includes(placeholder, t), 10)
       + Score(Includes(role, t), 5)
       + Score(Includes(href, t), 5)
       + TokenScore(Tail(tokens), label, name, placeholder, role, href)

rankCandidate(e, queryText) ==
  LET label == normalizeText(getElementLabel(e))
      role == normalizeText(e.role)
      name == normalizeText(e.name)
      placeholder == normalizeText(e.placeholder)
      href == normalizeText(e.href)
      query == normalizeText(queryText) IN
  IF query = <<>> THEN 0
  ELSE Score(Includes(label, query), 80)
       + Score(Includes(name, query) \/ Includes(placeholder, query), 50)
       + Score(Includes(role, query), 20)
       + Score(Includes(href, query), 20)
       + TokenScore(query, label, name, placeholder, role, href)
       + Score(isVisible(e), 10)

\* the elements findCandidates's selector list picks up
IsInteractive(e) ==
  \/ e.tag \in {"button", "input", "textarea", "select"}
  \/ e.tag = "a" /\ (e.href # <<>> \/ e.role = <<"button">>)
  \/ e.role = <<"button">>
  \/ e.aria # <<>>
  \/ e.name # <<>>
  \/ e.placeholder # <<>>
  \/ e.editable

\* Array.prototype.sort with (a, b) => b.score - a.score: stable, descending
RECURSIVE RankOrder(_, _, _)
RankOrder(S, page, query) ==
  IF S = {} THEN <<>>
  ELSE LET best == CHOOSE i \in S : \A j \in S :
                     \/ rankCandidate(page[i], query) > rankCandidate(page[j], query)
                     \/ /\ rankCandidate(page[i], query) = rankCandidate(page[j], query)
                        /\ i <= j
       IN <<best>> \o RankOrder(S \ {best}, page, query)

CandId(k) == <<"cand-1", "cand-2", "cand-3", "cand-4", "cand-5", "cand-6", "cand-7", "cand-8">>[k]

\* the elements findCandidates keeps, in the order of its selector list's
\* result: visible, with a score above zero
Kept(page, query) ==
  {i \in 1..Len(page) :
     /\ IsInteractive(page[i])
     /\ isVisible(page[i])
     /\ rankCandidate(page[i], query) > 0}

\* a variant that cuts the list to 8 without sorting it first
\* (document order)
rankedUnsorted(page, query) ==
  LET order == RankOrder(Kept(page, query), page, <<>>) IN
  SubSeq(order, 1, IF Len(order) < 8 THEN Len(order) ELSE 8)

\* findCandidates's ranked: filter, sort by score, slice(0, 8)
ranked(page, query) ==
  LET order == RankOrder(Kept(page, query), page, query) IN
  SubSeq(order, 1, IF Len(order) < 8 THEN Len(order) ELSE 8)

\* findCandidates: the candidates of a find result
findCandidates(page, query) ==
  LET r == ranked(page, query) IN
  [k \in 1..Len(r) |->
     [id |-> CandId(k),
      label |-> getElementLabel(page[r[k]]),
      selector |-> buildSelector(page, r[k])]]

\* typeIntoElement: whether the element takes text
typeIntoElement(e) == e.tag \in {"input", "textarea"} \/ e.editable

\* handleToolMessage: the response to a find / highlight / click / type command
handleToolMessage(page, action, arg) ==
  LET target == getTarget(page, arg) IN
  IF action = "find" THEN [ok |-> TRUE, data |-> findCandidates(page, arg), error |-> "none"]
  ELSE IF action \notin {"highlight", "click", "type"}
    THEN [ok |-> FALSE, data |-> <<>>, error |-> "EXTENSION_NOT_READY"]
  ELSE IF target = 0 THEN [ok |-> FALSE, data |-> <<>>, error |-> "NOT_FOUND"]
  ELSE IF action = "click" /\ ~isVisible(page[target])
    THEN [ok |-> FALSE, data |-> <<>>, error |-> "NOT_FOUND"]
  ELSE IF action = "type" /\ ~typeIntoElement(page[target])
    THEN [ok |-> FALSE, data |-> <<>>, error |-> "NOT_FOUND"]
  ELSE [ok |-> TRUE, data |-> <<>>, error |-> "none"]

\* the document of the active tab
Element(tag, id, name, text, placeholder) ==
  [tag |-> tag, id |-> id, name |-> name, aria |-> <<>>, text |-> text, value |-> <<>>,
   placeholder |-> placeholder, role |-> <<>>, href |-> <<>>, testid |-> "",
   testid2 |-> "", visible |-> TRUE, editable |-> FALSE, parent |-> 0]

Page ==
  << Element("button", "", <<>>, <<"Delete", "account">>, <<>>),
     Element("button", "submit", <<>>, <<"Go">>, <<>>),
     Element("input", "", <<"q">>, <<>>, <<"Search">>) >>

\* ----------------------------------------------------------- the extension
\* The background worker (src/extension/background.js) and the side panel's
\* Approve / Reject / Stop buttons.  The socket is open.

DangerousWords ==
  {"delete", "remove", "purchase", "buy", "checkout", "send", "payment", "pay",
   "transfer", "confirm", "submit", "withdraw", "irreversible"}

DangerousPhrases ==
  {<<"place", "order">>, <<"confirm", "order">>, <<"submit", "payment">>}

\* DANGEROUS_CLICK_RE.test(text): the pattern is case-insensitive
DANGEROUS_CLICK_RE(text) ==
  \/ \E i \in 1..Len(text) : LowerWord(text[i]) \in DangerousWords
  \/ \E ph \in DangerousPhrases : Includes(normalizeText(text), ph)

\* a variant that lets auto-run wave a type through only when it is harmless
requiresManualApprovalTypeChecked(request, auto) ==
  IF request.tool # "browser_click" /\ request.tool # "browser_type" THEN FALSE
  ELSE IF ~auto THEN TRUE
  ELSE DANGEROUS_CLICK_RE(request.label \o request.arg) \/ request.tool = "browser_type"

\* requiresManualApproval, with state.autoRun as its second argument
requiresManualApproval(request, auto) ==
  IF request.tool # "browser_click" /\ request.tool # "browser_type" THEN FALSE
  ELSE IF ~auto THEN TRUE
  ELSE IF request.tool # "browser_click" THEN FALSE
  ELSE DANGEROUS_CLICK_RE(request.label \o request.arg)

Envelope(type, a, ok, data, error, approved) ==
  [type |-> type, a |-> a, ok |-> ok, data |-> data, error |-> error, approved |-> approved]

ToolResultEnvelope(a, result) ==
  Envelope("tool_result", a, result.ok, result.data, result.error, FALSE)

\* a variant that reports a rejection as a missing element
RejectionCodeNotFound == "NOT_FOUND"

\* the error code handleApproval reports for a rejected request
RejectionCode == "PERMISSION_DENIED"

\* a variant that executes whatever the user answered
ApprovalProceedsAlways(approved) == TRUE

\* handleApproval's branch: whether the request goes on to executeToolRequest
ApprovalProceeds(approved) == approved

\* ws.onmessage, case tool_request: onToolRequest up to its await of updateHud.
\* The socket delivers the envelopes in the order the backend sent them.
ExtReceive(a) ==
  /\ extSocket = "open"
  /\ requests[a] # NoReq
  /\ a \notin extRecv
  /\ \A b \in ActionIds : b < a => b \in extRecv
  /\ extRecv' = extRecv \cup {a}
  /\ pendingToolRequests' = pendingToolRequests \cup {a}
  /\ hudWait' = hudWait \cup {a}
  /\ UNCHANGED <<autoRun, pendingAction, denyWait, execPage, execReport, uiPending,
                 toBackend, numUi, delivered, clicked, gateLog, approvedRecv, rejectedRecv>>
  /\ UNCHANGED <<bvars, auxVars>>

\* onToolRequest after updateHud: the gate.  A gated request becomes the pending
\* action; any other goes to executeToolRequest.
GateStep(a) ==
  LET need == requiresManualApproval(requests[a], autoRun) IN
  /\ a \in hudWait
  /\ hudWait' = hudWait \ {a}
  /\ gateLog' = [gateLog EXCEPT ![a] = [seen |-> TRUE, need |-> need, autoRun |-> autoRun,
                                         stopped |-> FALSE]]
  /\ IF need
       THEN /\ pendingAction' = a
            /\ UNCHANGED execPage
       ELSE /\ execPage' = [execPage EXCEPT ![a] = @ + 1]
            /\ UNCHANGED pendingAction
  /\ UNCHANGED <<autoRun, pendingToolRequests, extRecv, denyWait, execReport, uiPending,
                 toBackend, numUi, delivered, clicked, approvedRecv, rejectedRecv>>
  /\ UNCHANGED <<bvars, auxVars>>

\* the side panel receives a ui_state broadcast
UiSync ==
  /\ uiPending # pendingAction
  /\ uiPending' = pendingAction
  /\ UNCHANGED <<autoRun, pendingAction, pendingToolRequests, extRecv, hudWait, denyWait,
                 execPage, execReport, toBackend, numUi, delivered, clicked, gateLog,
                 approvedRecv, rejectedRecv>>
  /\ UNCHANGED <<bvars, auxVars>>

\* ui_set_auto_run
UiSetAutoRun(v) ==
  /\ autoRun # v
  /\ autoRun' = v
  /\ UNCHANGED <<pendingAction, pendingToolRequests, extRecv, hudWait, denyWait, execPage,
                 execReport, uiPending, toBackend, numUi, delivered, clicked, gateLog,
                 approvedRecv, rejectedRecv>>
  /\ UNCHANGED <<bvars, auxVars>>

\* sendToBackend: the socket's queue after the envelopes are sent.  It throws
\* when the socket is not open, and nothing is sent.
sendToBackend(envelopes) ==
  IF extSocket = "open" THEN toBackend \o envelopes ELSE toBackend

\* handleApproval up to its first await.  With the socket not open its first
\* sendToBackend throws before anything is changed.
handleApproval(a, approved) ==
  IF a \notin pendingToolRequests \/ extSocket # "open"
    THEN UNCHANGED <<pendingAction, pendingToolRequests, denyWait, execPage, toBackend,
                     approvedRecv, rejectedRecv>>
    ELSE /\ toBackend' = Append(toBackend, Envelope("user_approval", a, FALSE, <<>>, "none", approved))
         /\ pendingAction' = NoAction
         /\ IF ApprovalProceeds(approved)
              THEN /\ execPage' = [execPage EXCEPT ![a] = @ + 1]
                   /\ UNCHANGED <<pendingToolRequests, denyWait>>
              ELSE /\ pendingToolRequests' = pendingToolRequests \ {a}
                   /\ denyWait' = denyWait \cup {a}
                   /\ UNCHANGED execPage
         /\ approvedRecv' = IF approved THEN approvedRecv \cup {a} ELSE approvedRecv
         /\ rejectedRecv' = IF approved THEN rejectedRecv ELSE rejectedRecv \cup {a}

\* the Approve and Reject buttons: ui_approval for the action the panel shows
UiApproval(approved) ==
  /\ uiPending # NoAction
  /\ numUi' = numUi + 1
  /\ handleApproval(uiPending, approved)
  /\ UNCHANGED <<autoRun, extRecv, hudWait, execReport, uiPending, delivered, clicked, gateLog>>
  /\ UNCHANGED <<bvars, auxVars>>

\* handleApproval, rejected, after updateHud: the tool_result it reports
DenyReport(a) ==
  /\ a \in denyWait
  /\ denyWait' = denyWait \ {a}
  /\ toBackend' = sendToBackend(<<Envelope("tool_result", a, FALSE, <<>>, RejectionCode, FALSE)>>)
  /\ UNCHANGED <<autoRun, pendingAction, pendingToolRequests, extRecv, hudWait, execPage,
                 execReport, uiPending, numUi, delivered, clicked, gateLog, approvedRecv,
                 rejectedRecv>>
  /\ UNCHANGED <<bvars, auxVars>>

\* the command executeToolRequest sends to the tab for a tool
ToolAction(tool) ==
  CASE tool = "browser_find" -> "find"
    [] tool = "browser_highlight" -> "highlight"
    [] tool = "browser_click" -> "click"
    [] tool = "browser_type" -> "type"
    [] OTHER -> "none"

Failure(code) == [ok |-> FALSE, data |-> <<>>, error |-> code]

\* The times sendToolMessageToActiveTab has run chrome.scripting.executeScript
\* for the requests 1..n: once for every pair of deliveries of a command the
\* content script refuses.
RECURSIVE Injections(_)
Injections(n) ==
  IF n = 0 THEN 0
  ELSE Injections(n - 1) +
       (IF /\ requests[n] # NoReq
           /\ requests[n].tool # "browser_navigate"
           /\ ~handleToolMessage(Page, ToolAction(requests[n].tool), requests[n].arg).ok
          THEN delivered[n] \div 2 ELSE 0)

\* The onMessage listeners in the tab.  content.js registers one each time it
\* runs, and nothing keeps a second injection into the same page from running
\* it again: each listener passes the command to its own handleToolMessage.
Listeners == 1 + Injections(MaxActions)

\* executeToolRequest's awaited call: navigateActiveTab, or sendToolMessageToActiveTab
\* with the content script's handleToolMessage.  A response that is not ok makes
\* sendToolMessageToActiveTab re-inject the script and send the command again.
ExecPage(a) ==
  LET req == requests[a]
      resp == handleToolMessage(Page, ToolAction(req.tool), req.arg) IN
  /\ execPage[a] > 0
  /\ execPage' = [execPage EXCEPT ![a] = @ - 1]
  /\ \E tab \in {"ok", "none"} :
       IF tab = "none"
         THEN /\ execReport' = [execReport EXCEPT ![a] = Append(@, Failure("NO_ACTIVE_TAB"))]
              /\ UNCHANGED <<delivered, clicked>>
       ELSE IF req.tool = "browser_navigate"
         THEN /\ execReport' = [execReport EXCEPT ![a] =
                                  Append(@, [ok |-> TRUE, data |-> <<>>, error |-> "none"])]
              /\ UNCHANGED <<delivered, clicked>>
       ELSE IF resp.ok
         THEN /\ execReport' = [execReport EXCEPT ![a] = Append(@, resp)]
              /\ delivered' = [delivered EXCEPT ![a] = @ + 1]
              /\ clicked' = [clicked EXCEPT ![a] =
                                @ + (IF req.tool = "browser_click" THEN Listeners ELSE 0)]
         ELSE /\ execReport' = [execReport EXCEPT ![a] = Append(@, Failure("EXTENSION_NOT_READY"))]
              /\ delivered' = [delivered EXCEPT ![a] = @ + 2]
              /\ UNCHANGED clicked
  /\ UNCHANGED <<autoRun, pendingAction, pendingToolRequests, extRecv, hudWait, denyWait,
                 uiPending, toBackend, numUi, gateLog, approvedRecv, rejectedRecv>>
  /\ UNCHANGED <<bvars, auxVars>>

\* a variant that passes the caught value on as it is
normalizeErrorCodeRaw(error) == error

\* normalizeErrorCode: the message of the caught error ("" for a falsy value)
normalizeErrorCode(error) ==
  IF error = "" THEN "EXTENSION_NOT_READY"
  ELSE IF error \in {"EXTENSION_NOT_READY", "NO_ACTIVE_TAB", "PERMISSION_DENIED",
                     "NOT_FOUND", "TIMEOUT", "CANCELLED"} THEN error
  ELSE "EXTENSION_NOT_READY"

\* the result executeToolRequest reports for what its awaited call gave
Reported(res) ==
  IF res.ok THEN res ELSE [res EXCEPT !.error = normalizeErrorCode(res.error)]

\* what the awaited call can throw besides the outcomes of ExecPage: the tab is
\* on a restricted URL, waitForTabLoad runs out, a chrome API call rejects
ThrownErrors(tool) ==
  {"PERMISSION_DENIED", "Tabs cannot be edited right now."}
    \cup (IF tool = "browser_navigate" THEN {"TIMEOUT"} ELSE {})

\* executeToolRequest's awaited call throws before anything reaches the page
ExecFault(a) ==
  /\ execPage[a] > 0
  /\ execPage' = [execPage EXCEPT ![a] = @ - 1]
  /\ \E error \in ThrownErrors(requests[a].tool) :
       execReport' = [execReport EXCEPT ![a] = Append(@, Failure(error))]
  /\ UNCHANGED <<autoRun, pendingAction, pendingToolRequests, extRecv, hudWait, denyWait,
                 uiPending, toBackend, numUi, delivered, clicked, gateLog, approvedRecv,
                 rejectedRecv>>
  /\ UNCHANGED <<bvars, auxVars>>

\* executeToolRequest after updateHud: the tool_result, then finally { delete the
\* request; clear the pending action when it is this one }
ExecReport(a) ==
  /\ execReport[a] # <<>>
  /\ execReport' = [execReport EXCEPT ![a] = Tail(@)]
  /\ toBackend' = sendToBackend(<<ToolResultEnvelope(a, Reported(Head(execReport[a])))>>)
  /\ pendingToolRequests' = pendingToolRequests \ {a}
  /\ pendingAction' = IF pendingAction = a THEN NoAction ELSE pendingAction
  /\ UNCHANGED <<autoRun, extRecv, hudWait, denyWait, execPage, uiPending, numUi,
                 delivered, clicked, gateLog, approvedRecv, rejectedRecv>>
  /\ UNCHANGED <<bvars, auxVars>>

\* stopRun: cancel; with a pending action also its rejection and a CANCELLED
\* tool_result, and the request is dropped.  With the socket not open it
\* returns at once.
stopRun ==
  /\ numUi' = numUi + 1
  /\ gateLog' = IF pendingAction # NoAction
                  THEN [gateLog EXCEPT ![pendingAction].stopped = TRUE]
                  ELSE gateLog
  /\ IF extSocket # "open"
       THEN UNCHANGED <<toBackend, pendingToolRequests, pendingAction>>
     ELSE IF pendingAction # NoAction
       THEN /\ toBackend' = toBackend \o
                 << Envelope("cancel", NoAction, FALSE, <<>>, "none", FALSE),
                    Envelope("user_approval", pendingAction, FALSE, <<>>, "none", FALSE),
                    Envelope("tool_result", pendingAction, FALSE, <<>>, "CANCELLED", FALSE) >>
            /\ pendingToolRequests' = pendingToolRequests \ {pendingAction}
            /\ pendingAction' = NoAction
       ELSE /\ toBackend' = Append(toBackend, Envelope("cancel", NoAction, FALSE, <<>>, "none", FALSE))
            /\ UNCHANGED <<pendingToolRequests, pendingAction>>
  /\ UNCHANGED <<autoRun, extRecv, hudWait, denyWait, execPage, execReport, uiPending,
                 delivered, clicked, approvedRecv, rejectedRecv>>
  /\ UNCHANGED <<bvars, auxVars>>

\* the backend's socket handler takes the next envelope: routeMessage
BackendReceive(s) ==
  LET m == Head(toBackend) IN
  /\ toBackend # <<>>
  /\ toBackend' = Tail(toBackend)
  /\ CASE m.type = "tool_result" -> onToolResult(s, m.a, m.ok, m.data, m.error)
       [] m.type = "user_approval" -> RouteUserApproval(s, m.a, m.approved)
       [] OTHER -> RouteCancel(s)
  /\ UNCHANGED <<autoRun, pendingAction, pendingToolRequests, extRecv, hudWait, denyWait,
                 execPage, execReport, uiPending, numUi, delivered, clicked, gateLog,
                 approvedRecv, rejectedRecv>>
  /\ UNCHANGED auxVars

\* ------------------------------------------------- the backend, open system

InitState ==
  /\ sessions = [s \in SessionIds |-> NoObj]
  /\ objPhase = [o \in Objs |-> "free"]
  /\ run = [o \in Objs |-> NoRun]
  /\ runCancelled = [r \in RunIds |-> FALSE]
  /\ runFinalSent = [r \in RunIds |-> FALSE]
  /\ runSteps = [r \in RunIds |-> <<>>]
  /\ runOwner = [r \in RunIds |-> NoObj]
  /\ queue = [o \in Objs |-> 0]
  /\ keepAlive = [o \in Objs |-> FALSE]
  /\ pendingTools = [o \in Objs |-> {}]
  /\ callTool = [a \in ActionIds |-> "none"]
  /\ callOwner = [a \in ActionIds |-> NoObj]
  /\ timers = {}
  /\ lastFindCandidates = [o \in Objs |-> <<>>]
  /\ abortOps = [r \in RunIds |-> 0]
  /\ numMsgs = 0
  /\ numRuns = 0
  /\ numActions = 0
  /\ numCancels = 0
  /\ numEvents = 0
  /\ numSelects = 0
  /\ settled = [a \in ActionIds |-> <<>>]
  /\ finals = [r \in RunIds |-> <<>>]
  /\ cancelDone = [r \in RunIds |-> 0]
  /\ requests = [a \in ActionIds |-> NoReq]
  /\ lastSent = NoMsg
  /\ ws = "open"
  /\ autoRun = FALSE
  /\ pendingAction = NoAction
  /\ pendingToolRequests = {}
  /\ extRecv = {}
  /\ hudWait = {}
  /\ denyWait = {}
  /\ execPage = [a \in ActionIds |-> 0]
  /\ execReport = [a \in ActionIds |-> <<>>]
  /\ uiPending = NoAction
  /\ toBackend = <<>>
  /\ numUi = 0
  /\ delivered = [a \in ActionIds |-> 0]
  /\ clicked = [a \in ActionIds |-> 0]
  /\ gateLog = [a \in ActionIds |-> [seen |-> FALSE, need |-> FALSE, autoRun |-> FALSE,
                                  stopped |-> FALSE]]
  /\ approvedRecv = {}
  /\ rejectedRecv = {}
  /\ built = NoCall
  /\ lastReturn = NoReturn
  /\ extSocket = "open"

Init == InitState /\ doc = Page

\* an inbound tool_result envelope with the pairing token, for any action id
EnvToolResult ==
  \E s \in SessionIds, a \in ActionIds, ok \in BOOLEAN :
    \E data \in (IF ok /\ callTool[a] = "browser_find" THEN FindData ELSE {<<>>}) :
      \E error \in (IF ok THEN {"none"} ELSE WireErrors) :
        onToolResult(s, a, ok, data, error)

\* a tool invocation by the driver that reaches the broker
DriverTool ==
  \E o \in Objs :
    \/ \E url \in {<<>>, <<"example", "com">>} : ToolNavigate(o, url)
    \/ \E query \in {<<>>, <<"search", "box">>} : ToolFind(o, query)
    \/ \E tool \in {"browser_highlight", "browser_click", "browser_type"} :
         \E selector \in Selectors : ToolTarget(o, tool, selector)

\* a browser_select_candidate invocation by the driver
DriverSelect ==
  \E o \in Objs, id \in CandIds : ToolSelectCandidate(o, id)

\* Run control: the registry, the turn queue, cancelRun and the finals, under
\* any interleaving of user_message and cancel envelopes.
Next ==
  \/ /\ numMsgs < MaxTurns
     /\ \E s \in SessionIds : RouteUserMessage(s)
     /\ UNCHANGED <<extVars, auxVars>>
  \/ /\ \E s \in SessionIds, o \in Objs : CreateSessionDone(s, o)
     /\ UNCHANGED <<extVars, auxVars>>
  \/ /\ \E o \in Objs : CreateSessionFail(o)
     /\ UNCHANGED <<extVars, auxVars>>
  \/ /\ \E o \in Objs : DriverComplete(o)
     /\ UNCHANGED <<extVars, auxVars>>
  \/ /\ \E o \in Objs : DriverError(o)
     /\ UNCHANGED <<extVars, auxVars>>
  \/ /\ numCancels < MaxCancels
     /\ \E s \in SessionIds : RouteCancel(s)
     /\ UNCHANGED <<extVars, auxVars>>
  \/ /\ \E r \in RunIds : AbortDone(r)
     /\ UNCHANGED <<extVars, auxVars>>
  \/ /\ \E o \in Objs : DriverDelta(o)
     /\ UNCHANGED <<extVars, auxVars>>
  \/ /\ \E o \in Objs : KeepAliveTick(o)
     /\ UNCHANGED <<extVars, auxVars>>

Spec == Init /\ [][Next]_vars

\* The broker: one session, the tool handlers, tool_result envelopes, deadline
\* timers and cancel.
NextBroker ==
  \/ /\ numMsgs < BrokerTurns
     /\ \E s \in SessionIds : RouteUserMessage(s)
     /\ UNCHANGED <<extVars, auxVars>>
  \/ /\ \E s \in SessionIds, o \in Objs : CreateSessionDone(s, o)
     /\ UNCHANGED <<extVars, auxVars>>
  \/ /\ \E o \in Objs : DriverComplete(o)
     /\ UNCHANGED <<extVars, auxVars>>
  \/ /\ \E o \in Objs : DriverError(o)
     /\ UNCHANGED <<extVars, auxVars>>
  \/ /\ numCancels < BrokerCancels
     /\ \E s \in SessionIds : RouteCancel(s)
     /\ UNCHANGED <<extVars, auxVars>>
  \/ /\ \E r \in RunIds : AbortDone(r)
     /\ UNCHANGED <<extVars, auxVars>>
  \/ /\ \E o \in Objs : DriverDelta(o)
     /\ UNCHANGED <<extVars, auxVars>>
  \/ /\ numEvents < MaxEvents
     /\ \E o \in Objs : DriverToolEvent(o)
     /\ UNCHANGED <<extVars, auxVars>>
  \/ /\ \E o \in Objs : KeepAliveTick(o)
     /\ UNCHANGED <<extVars, auxVars>>
  \/ /\ numEvents < MaxEvents
     /\ \E s \in SessionIds, a \in ActionIds, approved \in BOOLEAN :
          RouteUserApproval(s, a, approved)
     /\ UNCHANGED <<extVars, auxVars>>
  \/ /\ numActions < BrokerActions
     /\ DriverTool
     /\ UNCHANGED <<extVars, auxVars>>
  \/ /\ numSelects < MaxSelects
     /\ DriverSelect
     /\ UNCHANGED <<extVars, auxVars>>
  \/ /\ \E a \in ActionIds : Timeout(a)
     /\ UNCHANGED <<extVars, auxVars>>
  \/ /\ EnvToolResult
     /\ UNCHANGED <<extVars, auxVars>>

SpecBroker == Init /\ [][NextBroker]_vars

\* The selectors the driver passes in the closed system: those of the page's
\* elements, as a find result reports them.
SysSelectors == {buildSelector(Page, i) : i \in 1..Len(Page)}

\* a tool invocation by the driver, in the closed system
SysDriverTool ==
  \E o \in Objs :
    \/ ToolNavigate(o, <<"example", "com">>)
    \/ ToolFind(o, <<"delete">>)
    \/ \E tool \in {"browser_highlight", "browser_click", "browser_type"} :
         \E selector \in SysSelectors : ToolTarget(o, tool, selector)

\* The closed system: one session and one turn of the backend, the extension,
\* the side panel and the page.
NextSys ==
  \/ /\ numMsgs < BrokerTurns
     /\ \E s \in SessionIds : RouteUserMessage(s)
     /\ UNCHANGED <<extVars, auxVars>>
  \/ /\ \E s \in SessionIds, o \in Objs : CreateSessionDone(s, o)
     /\ UNCHANGED <<extVars, auxVars>>
  \/ /\ numActions < BrokerActions
     /\ SysDriverTool
     /\ UNCHANGED <<extVars, auxVars>>
  \/ /\ numSelects < MaxSelects
     /\ DriverSelect
     /\ UNCHANGED <<extVars, auxVars>>
  \/ /\ \E a \in ActionIds : Timeout(a)
     /\ UNCHANGED <<extVars, auxVars>>
  \/ /\ \E r \in RunIds : AbortDone(r)
     /\ UNCHANGED <<extVars, auxVars>>
  \/ \E a \in ActionIds : ExtReceive(a)
  \/ \E a \in ActionIds : GateStep(a)
  \/ UiSync
  \/ \E v \in BOOLEAN : UiSetAutoRun(v)
  \/ /\ numUi < MaxUi
     /\ \E approved \in BOOLEAN : UiApproval(approved)
  \/ \E a \in ActionIds : DenyReport(a)
  \/ \E a \in ActionIds : ExecPage(a)
  \/ \E a \in ActionIds : ExecReport(a)
  \/ /\ numUi < MaxUi
     /\ stopRun
  \/ \E s \in SessionIds : BackendReceive(s)

SpecSys == Init /\ [][NextSys]_vars

\* Timers fire: a deadline armed with setTimeout runs its callback unless it is
\* cleared first.
TimerFires(a) == Timeout(a) /\ UNCHANGED <<extVars, auxVars>>

SpecBrokerFair == SpecBroker /\ \A a \in ActionIds : WF_vars(TimerFires(a))

\* a find, and click / type invocations on the page's elements
GateDriverTool ==
  \E o \in Objs :
    \/ ToolFind(o, <<"delete">>)
    \/ \E tool \in {"browser_click", "browser_type"} :
         \E selector \in SysSelectors : ToolTarget(o, tool, selector)

\* The approval gate: one turn in which the driver finds, selects and then
\* issues click and type calls without waiting for one to settle; the
\* extension gates them and the user approves or rejects.
NextGate ==
  \/ /\ numMsgs < BrokerTurns
     /\ \E s \in SessionIds : RouteUserMessage(s)
     /\ UNCHANGED <<extVars, auxVars>>
  \/ /\ \E s \in SessionIds, o \in Objs : CreateSessionDone(s, o)
     /\ UNCHANGED <<extVars, auxVars>>
  \/ /\ numActions < MaxActions
     /\ GateDriverTool
     /\ UNCHANGED <<extVars, auxVars>>
  \/ /\ numSelects < MaxSelects
     /\ DriverSelect
     /\ UNCHANGED <<extVars, auxVars>>
  \/ \E a \in ActionIds : ExtReceive(a)
  \/ \E a \in ActionIds : GateStep(a)
  \/ UiSync
  \/ /\ numUi < MaxUi
     /\ \E approved \in BOOLEAN : UiApproval(approved)
  \/ \E a \in ActionIds : DenyReport(a)
  \/ \E a \in ActionIds : ExecPage(a)
  \/ \E a \in ActionIds : ExecReport(a)
  \/ \E s \in SessionIds : BackendReceive(s)

SpecGate == Init /\ [][NextGate]_vars

\* The closed system with auto-run off and with the faults of the awaited call.
NextFault ==
  \/ /\ numMsgs < BrokerTurns
     /\ \E s \in SessionIds : RouteUserMessage(s)
     /\ UNCHANGED <<extVars, auxVars>>
  \/ /\ \E s \in SessionIds, o \in Objs : CreateSessionDone(s, o)
     /\ UNCHANGED <<extVars, auxVars>>
  \/ /\ numActions < BrokerActions
     /\ SysDriverTool
     /\ UNCHANGED <<extVars, auxVars>>
  \/ /\ numSelects < MaxSelects
     /\ DriverSelect
     /\ UNCHANGED <<extVars, auxVars>>
  \/ /\ \E a \in ActionIds : Timeout(a)
     /\ UNCHANGED <<extVars, auxVars>>
  \/ /\ \E r \in RunIds : AbortDone(r)
     /\ UNCHANGED <<extVars, auxVars>>
  \/ \E a \in ActionIds : ExtReceive(a)
  \/ \E a \in ActionIds : GateStep(a)
  \/ UiSync
  \/ /\ numUi < MaxUi
     /\ \E approved \in BOOLEAN : UiApproval(approved)
  \/ \E a \in ActionIds : DenyReport(a)
  \/ \E a \in ActionIds : ExecPage(a)
  \/ \E a \in ActionIds : ExecFault(a)
  \/ \E a \in ActionIds : ExecReport(a)
  \/ /\ numUi < MaxUi
     /\ stopRun
  \/ \E s \in SessionIds : BackendReceive(s)

SpecFault == Init /\ [][NextFault]_vars

\* ------------------------------------------------------------- the socket
\* The server's handlers for one connection: ws.on("message") with
\* normalizeMessage and routeMessage, and ws.on("close") with teardownSession.

pairingToken == "secret"

\* A frame as it arrives: form is "text" (not JSON), "scalar" (JSON, but null or
\* not an object) or "object"; hasType / hasSessionId / hasToken tell whether
\* the field is there and a string.
Frame(form, hasType, hasSessionId, hasToken, type, token, a) ==
  [form |-> form, hasType |-> hasType, hasSessionId |-> hasSessionId, hasToken |-> hasToken,
   type |-> type, sessionId |-> "s1", token |-> token, a |-> a,
   ok |-> TRUE, data |-> <<Cand1>>, error |-> "none", approved |-> TRUE]

\* the payloads a frame carries: an envelope type and the action id it names
Payloads ==
  {<<"user_message", NoAction>>, <<"cancel", NoAction>>, <<"bogus", NoAction>>}
    \cup {<<t, a>> : t \in {"tool_result", "user_approval"}, a \in ActionIds}

InboundFrames ==
  {Frame("object", TRUE, TRUE, TRUE, p[1], token, p[2]) :
     p \in Payloads, token \in {pairingToken, "wrong"}}
  \cup {Frame("text", FALSE, FALSE, FALSE, p[1], pairingToken, p[2]) : p \in Payloads}
  \cup {Frame("scalar", FALSE, FALSE, FALSE, p[1], pairingToken, p[2]) : p \in Payloads}
  \cup {Frame("object", FALSE, TRUE, TRUE, p[1], pairingToken, p[2]) : p \in Payloads}
  \cup {Frame("object", TRUE, FALSE, TRUE, p[1], pairingToken, p[2]) : p \in Payloads}
  \cup {Frame("object", TRUE, TRUE, FALSE, p[1], pairingToken, p[2]) : p \in Payloads}

\* normalizeMessage: TRUE when it returns the parsed envelope, FALSE for null
normalizeMessage(raw) ==
  /\ raw.form = "object"
  /\ raw.hasSessionId
  /\ raw.hasToken
  /\ raw.hasType

\* a variant that lets every token through
TokenAcceptedAny(token) == TRUE

\* routeMessage's first test
TokenAccepted(token) == token = pairingToken

\* the frames on the socket that routeMessage would dispatch as type t
Inflight(t) ==
  Cardinality({i \in 1..Len(toBackend) :
                 /\ normalizeMessage(toBackend[i])
                 /\ TokenAccepted(toBackend[i].token)
                 /\ toBackend[i].type = t})

\* the peer puts a frame on the socket
PeerSends(m) ==
  /\ ws # "closed"
  /\ Len(toBackend) < MaxInbox
  /\ (normalizeMessage(m) /\ TokenAccepted(m.token)) =>
       /\ m.type = "user_message" => numMsgs + Inflight("user_message") < BrokerTurns
       /\ m.type = "cancel" => numCancels + Inflight("cancel") < BrokerCancels
       /\ m.type = "user_approval" => numEvents + Inflight("user_approval") < MaxEvents
  /\ toBackend' = Append(toBackend, m)
  /\ UNCHANGED <<autoRun, pendingAction, pendingToolRequests, extRecv, hudWait, denyWait,
                 execPage, execReport, uiPending, numUi, delivered, clicked, gateLog,
                 approvedRecv, rejectedRecv>>
  /\ UNCHANGED <<bvars, auxVars>>

\* ws.on("message"): normalizeMessage, then routeMessage.  A frame that does not
\* normalize is dropped; a token other than the pairing token closes the
\* socket; an unknown type throws, which the handler logs.
WsOnMessage ==
  LET m == Head(toBackend) IN
  /\ ws # "closed"
  /\ toBackend # <<>>
  /\ toBackend' = Tail(toBackend)
  /\ IF ~normalizeMessage(m) THEN UNCHANGED bvars
     ELSE IF ~TokenAccepted(m.token) THEN ws' = "closing" /\ UNCHANGED bcore
     ELSE CASE m.type = "user_message" -> RouteUserMessage(m.sessionId)
            [] m.type = "user_approval" -> RouteUserApproval(m.sessionId, m.a, m.approved)
            [] m.type = "cancel" -> RouteCancel(m.sessionId)
            [] m.type = "tool_result" -> onToolResult(m.sessionId, m.a, m.ok, m.data, m.error)
            [] OTHER -> UNCHANGED bvars
  /\ UNCHANGED <<autoRun, pendingAction, pendingToolRequests, extRecv, hudWait, denyWait,
                 execPage, execReport, uiPending, numUi, delivered, clicked, gateLog,
                 approvedRecv, rejectedRecv>>
  /\ UNCHANGED auxVars

\* the sessions ws.on("close") tears down: those registered, all on this socket
Linked == {sessions[s] : s \in SessionIds} \ {NoObj}

\* ws.on("close") with teardownSession up to its await of destroy(): reject and
\* clear every pending call, unsubscribe the listeners
WsOnClose ==
  LET calls == UNION {pendingTools[o] : o \in Linked} IN
  /\ ws # "closed"
  /\ ws' = "closed"
  /\ settled' = Settle(settled, calls, "CANCELLED")
  /\ timers' = ClearTimeout(timers, calls)
  /\ pendingTools' = [o \in Objs |-> IF o \in Linked THEN {} ELSE pendingTools[o]]
  /\ objPhase' = [o \in Objs |-> IF o \in Linked THEN "closing" ELSE objPhase[o]]
  /\ UNCHANGED <<sessions, run, runCancelled, runFinalSent, runSteps, runOwner, queue,
                 keepAlive, callTool, callOwner, lastFindCandidates, abortOps, numMsgs,
                 numRuns, numActions, numCancels, numEvents, numSelects, finals, cancelDone,
                 requests, lastSent>>

\* teardownSession after destroy() settled: sessions.delete(state.sessionId).
\* Every SessionState carries the one session id.
TeardownDone(o) ==
  /\ objPhase[o] = "closing"
  /\ objPhase' = [objPhase EXCEPT ![o] = "gone"]
  /\ sessions' = [s \in SessionIds |-> NoObj]
  /\ UNCHANGED <<run, runCancelled, runFinalSent, runSteps, runOwner, queue, keepAlive,
                 pendingTools, callTool, callOwner, timers, lastFindCandidates, abortOps,
                 numMsgs, numRuns, numActions, numCancels, numEvents, numSelects, settled,
                 finals, cancelDone, requests, lastSent, ws>>
  /\ UNCHANGED <<extVars, auxVars>>

\* One connection: frames of any shape and token, the driver's find calls, the
\* deadline timers, the end of the turn and the close of the socket.
NextWire ==
  \/ \E m \in InboundFrames : PeerSends(m)
  \/ WsOnMessage
  \/ /\ \E s \in SessionIds, o \in Objs : CreateSessionDone(s, o)
     /\ UNCHANGED <<extVars, auxVars>>
  \/ /\ numActions < BrokerActions
     /\ \E o \in Objs : ToolFind(o, <<"search", "box">>)
     /\ UNCHANGED <<extVars, auxVars>>
  \/ /\ \E a \in ActionIds : Timeout(a)
     /\ UNCHANGED <<extVars, auxVars>>
  \/ /\ \E o \in Objs : DriverComplete(o)
     /\ UNCHANGED <<extVars, auxVars>>
  \/ /\ \E r \in RunIds : AbortDone(r)
     /\ UNCHANGED <<extVars, auxVars>>
  \/ /\ WsOnClose
     /\ UNCHANGED <<extVars, auxVars>>
  \/ \E o \in Objs : TeardownDone(o)

SpecWire == Init /\ [][NextWire]_vars

\* ------------------------------------------------------ a lost connection

\* The connection is lost: ws.on("close") in the backend, ws.onclose in the
\* background worker, which only notes that it is not connected.  Envelopes
\* still on the way are lost.
SocketCloses ==
  /\ extSocket = "open"
  /\ extSocket' = "closed"
  /\ WsOnClose
  /\ toBackend' = <<>>
  /\ UNCHANGED <<autoRun, pendingAction, pendingToolRequests, extRecv, hudWait, denyWait,
                 execPage, execReport, uiPending, numUi, delivered, clicked, gateLog,
                 approvedRecv, rejectedRecv>>
  /\ UNCHANGED <<doc, built, lastReturn>>

\* ensureConnected on ui_connect: a new socket; ws.onopen notes the connection.
\* The backend keeps state.ws of the sessions it has, the socket that closed.
ExtOnOpen ==
  /\ extSocket = "closed"
  /\ extSocket' = "open"
  /\ UNCHANGED <<bvars, extVars, doc, built, lastReturn>>

\* The approval gate with the Stop button and a connection that can be lost
\* and made again: one turn with a find, a selection and click or type calls.
NextStop ==
  \/ /\ numMsgs < BrokerTurns
     /\ \E s \in SessionIds : RouteUserMessage(s)
     /\ UNCHANGED <<extVars, auxVars>>
  \/ /\ \E s \in SessionIds, o \in Objs : CreateSessionDone(s, o)
     /\ UNCHANGED <<extVars, auxVars>>
  \/ /\ numActions < BrokerActions
     /\ GateDriverTool
     /\ UNCHANGED <<extVars, auxVars>>
  \/ /\ numSelects < MaxSelects
     /\ DriverSelect
     /\ UNCHANGED <<extVars, auxVars>>
  \/ /\ ws = "open"
     /\ \E a \in ActionIds : ExtReceive(a)
  \/ \E a \in ActionIds : GateStep(a)
  \/ UiSync
  \/ /\ numUi < MaxUi
     /\ \E approved \in BOOLEAN : UiApproval(approved)
  \/ /\ numUi < MaxUi
     /\ stopRun
  \/ \E a \in ActionIds : DenyReport(a)
  \/ \E a \in ActionIds : ExecPage(a)
  \/ \E a \in ActionIds : ExecReport(a)
  \/ \E s \in SessionIds : BackendReceive(s)
  \/ SocketCloses
  \/ ExtOnOpen
  \/ \E o \in Objs : TeardownDone(o)

SpecStop == Init /\ [][NextStop]_vars

\* ------------------------------------------------- the resolver on documents
\* buildSelector and findCandidates applied to documents drawn from a family:
\* two branches under body, each a chain of nested div elements ending in a leaf.

MaxDepth == 5

Div(parent) == [Element("div", "", <<>>, <<>>, <<>>) EXCEPT !.parent = parent]

Leaves ==
  { Element("button", "", <<>>, <<"Go">>, <<>>),
    Element("button", "go", <<>>, <<"Go">>, <<>>),
    Element("input", "", <<"q">>, <<>>, <<"Search">>),
    [Element("button", "", <<>>, <<"Go">>, <<>>) EXCEPT !.testid = "t"],
    [Element("button", "", <<>>, <<"Go">>, <<>>) EXCEPT !.testid2 = "t"],
    Element("button", "", <<>>, <<"add", "to", "my", "shopping", "cart">>, <<>>),
    [Element("a", "", <<"cart", "to", "add", "my", "shopping">>,
             <<"my", "shopping", "cart", "to", "add">>, <<>>)
       EXCEPT !.role = <<"to", "my", "cart", "shopping", "add">>,
              !.href = <<"shop", "my", "cart", "add", "to", "shopping">>] }

\* a chain of d nested div elements under body with the leaf innermost, placed
\* after the first base elements of the document
Branch(base, d, leaf) ==
  [k \in 1..(d + 1) |->
     IF k <= d THEN Div(IF k = 1 THEN 0 ELSE base + k - 1)
     ELSE [leaf EXCEPT !.parent = IF d = 0 THEN 0 ELSE base + d]]

TwinDoc(d, leaf1, leaf2) == Branch(0, d, leaf1) \o Branch(d + 1, d, leaf2)

MaxList == 10

\* a list of n elements under body: buttons labelled Go, the one at position
\* hidden not visible, the one at position search a search input instead
ListDoc(n, hidden, search) ==
  [k \in 1..n |->
     [(IF k = search THEN Element("input", "", <<"q">>, <<>>, <<"Search">>)
       ELSE Element("button", "", <<>>, <<"Go">>, <<>>)) EXCEPT !.visible = (k # hidden)]]

Docs ==
  {TwinDoc(d, l1, l2) : d \in 0..MaxDepth, l1 \in Leaves, l2 \in Leaves}
    \cup {ListDoc(n, h, s) : n \in 1..MaxList, h \in {0, 2, 3}, s \in {0, 1, 2}}

Queries == {<<>>, <<"go">>, <<"search", "box">>, <<"add", "to", "my", "shopping", "cart">>}

InitPage == InitState /\ doc \in Docs

\* buildSelector(element) for element i of the document
BuildSelectorCall(i) ==
  /\ built' = [op |-> "buildSelector", element |-> i, out |-> buildSelector(doc, i)]
  /\ UNCHANGED <<bvars, extVars, doc, lastReturn, extSocket>>

\* the find command: findCandidates(query)
FindCall(query) ==
  /\ built' = [op |-> "find", query |-> query, out |-> findCandidates(doc, query),
                ranked |-> ranked(doc, query)]
  /\ UNCHANGED <<bvars, extVars, doc, lastReturn, extSocket>>

NextPage ==
  \/ \E i \in 1..Len(doc) : BuildSelectorCall(i)
  \/ \E query \in Queries : FindCall(query)

SpecPage == InitPage /\ [][NextPage]_vars

\* ------------------------------------------ commands on the page's elements
\* The content script's highlight, click and type commands on short documents
\* with a hidden element, and what each does to the page besides answering.

MaxTargets == 3

TargetDocs == {ListDoc(n, h, s) : n \in 1..MaxTargets, h \in 0..MaxTargets, s \in 0..MaxTargets}

InitTarget == InitState /\ doc \in TargetDocs

\* what handleToolMessage does to the page before it answers a highlight,
\* click or type command: scrollIntoView, highlightElement, target.click(),
\* typeIntoElement's change of the value
pageEffects(page, action, selector) ==
  LET target == getTarget(page, selector) IN
  IF target = 0 THEN {}
  ELSE IF action = "highlight" THEN {"scroll", "highlight"}
  ELSE IF action = "click"
    THEN IF isVisible(page[target]) THEN {"scroll", "highlight", "click"} ELSE {}
  ELSE {"scroll", "highlight"} \cup (IF typeIntoElement(page[target]) THEN {"value"} ELSE {})

\* a highlight, click or type command with a selector: the response, and the
\* page after it (type sets the value of the element it types into)
ToolMessageCall(action, selector) ==
  LET target == getTarget(doc, selector)
      effects == pageEffects(doc, action, selector) IN
  /\ built' = [op |-> "tool", action |-> action, selector |-> selector,
                out |-> handleToolMessage(doc, action, selector), effects |-> effects]
  /\ doc' = IF "value" \in effects THEN [doc EXCEPT ![target].value = <<"hello">>] ELSE doc
  /\ UNCHANGED <<bvars, extVars, lastReturn, extSocket>>

NextTarget ==
  \E action \in {"highlight", "click", "type"} :
    \E selector \in {buildSelector(doc, i) : i \in 1..Len(doc)} \cup {<<"#", "missing">>} :
      ToolMessageCall(action, selector)

SpecTarget == InitTarget /\ [][NextTarget]_vars

\* ------------------------------------------- what the tool handlers return
\* The driver's view of the tool handlers: the value each call returns or the
\* error it throws, on a connection that may close while the turn runs.

\* a handler's rejection with an error message
Thrown(tool, message) == [tool |-> tool, ok |-> FALSE, error |-> message, candidates |-> <<>>]

\* a handler's return value; candidates is its candidate list, if it has one
Returned(tool, candidates) ==
  [tool |-> tool, ok |-> TRUE, error |-> "none", candidates |-> candidates]

\* the outcome of a handler's synchronous part, up to its await of
\* requestToolRoundTrip: an argument or candidate check that throws, an empty
\* find, a closed socket; a handler that suspends has returned nothing yet
SyncOutcome(o, tool, arg) ==
  LET n == Len(lastFindCandidates[o]) IN
  IF tool = "browser_find" /\ arg = <<>> THEN Returned(tool, <<>>)
  ELSE IF tool \in {"browser_highlight", "browser_click", "browser_type"}
          /\ ~ensureSingleCandidateBeforeAction(o, tool)
    THEN Thrown(tool, IF n = 0 THEN "Call browser.find first" ELSE "Multiple candidates")
  ELSE IF arg = <<>> THEN Thrown(tool, "NOT_FOUND")
  ELSE IF ws # "open" THEN Thrown(tool, "EXTENSION_NOT_READY")
  ELSE lastReturn

\* browser_select_candidate: { selected: candidate } or NOT_FOUND, with the id
\* the call was given and the SessionState its handler closes over
SelectOutcome(o, id) ==
  LET hits == SelectSeq(lastFindCandidates[o], LAMBDA c : c.id = id) IN
  [id |-> id, o |-> o] @@ (IF hits = <<>> THEN Thrown("browser_select_candidate", "NOT_FOUND")
                           ELSE Returned("browser_select_candidate", <<hits[1]>>))

\* the rest of the handler that awaited call a, once a tool_result settled it
ResultOutcome(s, a, ok, data, error) ==
  IF sessions[s] = NoObj \/ ~PendingLookup(sessions[s], a) THEN lastReturn
  ELSE IF ~ok THEN Thrown(callTool[a], toErrorCode(error))
  ELSE IF callTool[a] = "browser_find" THEN Returned(callTool[a], parseFindResult(data))
  ELSE Returned(callTool[a], <<>>)

\* the handlers whose calls the close of the socket rejects throw CANCELLED
CloseOutcome ==
  LET calls == UNION {pendingTools[o] : o \in Linked} IN
  IF calls = {} THEN lastReturn
  ELSE Thrown(callTool[CHOOSE a \in calls : \A b \in calls : b <= a], "CANCELLED")

ToolsCall ==
  \E o \in Objs :
    \/ \E url \in {<<>>, <<"example", "com">>} :
         ToolNavigate(o, url) /\ lastReturn' = SyncOutcome(o, "browser_navigate", url)
    \/ \E query \in {<<>>, <<"search", "box">>} :
         ToolFind(o, query) /\ lastReturn' = SyncOutcome(o, "browser_find", query)
    \/ \E tool \in {"browser_highlight", "browser_click", "browser_type"} :
         \E selector \in Selectors :
           ToolTarget(o, tool, selector) /\ lastReturn' = SyncOutcome(o, tool, selector)

ToolsSelect ==
  \E o \in Objs, id \in CandIds :
    ToolSelectCandidate(o, id) /\ lastReturn' = SelectOutcome(o, id)

ToolsResult ==
  \E s \in SessionIds, a \in ActionIds, ok \in BOOLEAN :
    \E data \in (IF ok /\ callTool[a] = "browser_find" THEN FindData ELSE {<<>>}) :
      \E error \in (IF ok THEN {"none"} ELSE WireErrors) :
        /\ onToolResult(s, a, ok, data, error)
        /\ lastReturn' = ResultOutcome(s, a, ok, data, error)

ToolsTimeout(a) == Timeout(a) /\ lastReturn' = Thrown(callTool[a], "TIMEOUT")

\* One turn of one session: the driver's tool calls with any arguments, their
\* results and deadlines, the end of the turn, the close of the socket.
NextTools ==
  \/ /\ numMsgs < BrokerTurns
     /\ \E s \in SessionIds : RouteUserMessage(s)
     /\ UNCHANGED <<extVars, auxVars>>
  \/ /\ \E s \in SessionIds, o \in Objs : CreateSessionDone(s, o)
     /\ UNCHANGED <<extVars, auxVars>>
  \/ /\ numActions < BrokerActions
     /\ ToolsCall
     /\ UNCHANGED <<extVars, doc, built, extSocket>>
  \/ /\ numSelects < MaxSelects
     /\ ToolsSelect
     /\ UNCHANGED <<extVars, doc, built, extSocket>>
  \/ /\ ToolsResult
     /\ UNCHANGED <<extVars, doc, built, extSocket>>
  \/ /\ \E a \in ActionIds : ToolsTimeout(a)
     /\ UNCHANGED <<extVars, doc, built, extSocket>>
  \/ /\ \E o \in Objs : DriverComplete(o)
     /\ UNCHANGED <<extVars, auxVars>>
  \/ /\ WsOnClose
     /\ lastReturn' = CloseOutcome
     /\ UNCHANGED <<extVars, doc, built, extSocket>>
  \/ \E o \in Objs : TeardownDone(o)

SpecTools == Init /\ [][NextTools]_vars

\* ------------------------------------------------------------ properties

Occurrences(seq, x) == Cardinality({i \in 1..Len(seq) : seq[i] = x})

\* C1: for every session id at most one Run is active at any instant.  Every
\* SessionState object here is created for the one session id of SessionIds,
\* and each holds its own run.
C1_AtMostOneActiveRun ==
  Cardinality({o \in Objs : objPhase[o] = "live" /\ run[o] # NoRun}) <= 1

\* C2: every recorded tool call reaches one terminal outcome, once: it is never
\* settled twice, it is pending exactly while its deadline timer is armed and
\* it has no outcome yet, and an armed call does not stay pending forever.
C2_SettledOnce ==
  \A a \in ActionIds :
    /\ Len(settled[a]) <= 1
    /\ (a \in timers) = (callTool[a] # "none" /\ settled[a] = <<>>)
    /\ (a \in timers) = (callOwner[a] # NoObj /\ a \in pendingTools[callOwner[a]])
    /\ \A i \in 1..Len(settled[a]) : settled[a][i] \in ErrorCodes \cup {"ok"}

C2_ExactlyOneOutcome ==
  /\ []C2_SettledOnce
  /\ \A a \in ActionIds : (a \in timers) ~> (Len(settled[a]) = 1)

\* C2 witness: one call ended by its deadline and another by a tool_result
C2_Witness ==
  \E a, b \in ActionIds :
    /\ settled[a] = <<"TIMEOUT">>
    /\ settled[b] \in {<<"ok">>, <<"NOT_FOUND">>}

\* a request the gate held back
Gated(a) == gateLog[a].seen /\ gateLog[a].need

\* C3: a click or type request that requires approval is not executed, and no
\* command of it reaches the page executor, before handleApproval has received
\* approved = TRUE for its action id.
C3_NoDeliveryBeforeApproval ==
  \A a \in ActionIds :
    (Gated(a) /\ a \notin approvedRecv) =>
      /\ delivered[a] = 0
      /\ execPage[a] = 0
      /\ execReport[a] = <<>>

\* C3 witness: a gated click was approved and then handed to the page executor
C3_Witness ==
  \E a \in ActionIds :
    /\ Gated(a)
    /\ requests[a].tool = "browser_click"
    /\ a \in approvedRecv
    /\ clicked[a] > 0

\* the element a click request lands on has a dangerous visible label, or the
\* request's selector is dangerous
DangerousClick(a) ==
  LET target == getTarget(Page, requests[a].arg) IN
  /\ requests[a].tool = "browser_click"
  /\ \/ DANGEROUS_CLICK_RE(requests[a].arg)
     \/ target # 0 /\ DANGEROUS_CLICK_RE(getElementLabel(Page[target]))

\* C4: with auto-run enabled, a click whose target's visible label or whose
\* selector is in the dangerous vocabulary is executed only after approval.
C4_DangerousClickWaits ==
  \A a \in ActionIds :
    (gateLog[a].seen /\ gateLog[a].autoRun /\ clicked[a] > 0 /\ DangerousClick(a)) =>
      a \in approvedRecv

\* C5: the gate's answers follow the reference policy: never for a tool other
\* than click and type; always for click and type with auto-run off; never for
\* type with auto-run on.
C5_ApprovalPolicy ==
  \A a \in ActionIds :
    gateLog[a].seen =>
      LET tool == requests[a].tool
          acts == tool \in {"browser_click", "browser_type"} IN
      /\ ~acts => ~gateLog[a].need
      /\ (acts /\ ~gateLog[a].autoRun) => gateLog[a].need
      /\ (tool = "browser_type" /\ gateLog[a].autoRun) => ~gateLog[a].need

\* C5 witness: the gate let a find and, under auto-run, a type pass
C5_Witness ==
  \E a, b \in ActionIds :
    /\ gateLog[a].seen /\ requests[a].tool = "browser_find" /\ ~gateLog[a].need
    /\ gateLog[b].seen /\ requests[b].tool = "browser_type"
    /\ gateLog[b].autoRun /\ ~gateLog[b].need

\* a gated click the user rejected and did not approve
RejectedClick(a) ==
  /\ Gated(a)
  /\ requests[a].tool = "browser_click"
  /\ a \in rejectedRecv \ approvedRecv

\* C6: a gated click the user rejected is never handed to the page executor,
\* and the broker's call for it settles with PERMISSION_DENIED: the rejection's
\* tool_result settles the call the session holds pending under that action id
\* with PERMISSION_DENIED, and a call it no longer finds pending was ended by
\* its deadline or by a cancel.
C6_RejectedNeverDelivered ==
  /\ [](\A a \in ActionIds :
          RejectedClick(a) =>
            /\ delivered[a] = 0
            /\ clicked[a] = 0
            /\ settled[a] \in {<<>>, <<"PERMISSION_DENIED">>, <<"TIMEOUT">>, <<"CANCELLED">>})
  /\ [][\A s \in SessionIds, a \in ActionIds :
          ( /\ RejectedClick(a)
            /\ toBackend # <<>>
            /\ Head(toBackend).type = "tool_result"
            /\ Head(toBackend).a = a
            /\ toBackend' = Tail(toBackend)
            /\ sessions[s] # NoObj
            /\ a \in pendingTools[sessions[s]] )
          => settled'[a] = <<"PERMISSION_DENIED">>]_vars

\* C6 witness: with auto-run on, the click on #submit was held back, rejected,
\* and its call settled with PERMISSION_DENIED
C6_Witness ==
  \E a \in ActionIds :
    /\ RejectedClick(a)
    /\ gateLog[a].autoRun
    /\ settled[a] = <<"PERMISSION_DENIED">>
    /\ delivered[a] = 0

\* C7: the step that processes cancel for a session with an open Run rejects
\* every call pending in that session's state at that moment with CANCELLED as
\* its only outcome, clears its timer and leaves the pending set empty; a call
\* rejected with CANCELLED never gets another outcome.
CancelProcessed(o) ==
  /\ o # NoObj
  /\ run[o] # NoRun
  /\ numCancels' = numCancels + 1

C7_CancelRejectsAllPending ==
  /\ [][\A s \in SessionIds :
          CancelProcessed(sessions[s]) =>
            /\ pendingTools'[sessions[s]] = {}
            /\ \A a \in pendingTools[sessions[s]] :
                 /\ settled'[a] = <<"CANCELLED">>
                 /\ a \notin timers']_vars
  /\ [](\A a \in ActionIds :
          Occurrences(settled[a], "CANCELLED") > 0 =>
            (settled[a] = <<"CANCELLED">> /\ a \notin timers))

\* C7 witness: two calls were pending when cancel was processed
C7_Witness ==
  /\ numCancels > 0
  /\ \E a, b \in ActionIds :
       a # b /\ settled[a] = <<"CANCELLED">> /\ settled[b] = <<"CANCELLED">>

\* C8: for every turn at most one assistant_final is sent.
C8_AtMostOneFinal ==
  \A r \in RunIds : Len(finals[r]) <= 1

\* C9: once the cancels received for a Run have all run to their end, that Run
\* has been sent the "Cancelled by user." final exactly once.
C9_CancelledFinalOnce ==
  \A r \in RunIds :
    (cancelDone[r] > 0 /\ abortOps[r] = 0) =>
      Occurrences(finals[r], "Cancelled by user.") = 1

\* C10: no assistant_delta, step_event or tool_request leaves for a Run whose
\* cancelled flag is set.
C10_SuppressedAfterCancel ==
  lastSent.type \in {"assistant_delta", "step_event", "tool_request"} =>
    ~lastSent.cancelled

\* the socket hands the backend a tool_result for action id a in this step
ToolResultTaken(a) ==
  /\ toBackend # <<>>
  /\ Head(toBackend).type = "tool_result"
  /\ Head(toBackend).a = a
  /\ toBackend' = Tail(toBackend)

\* every tool_result the extension produced for a has been taken by the backend
ResultConsumed(a) ==
  /\ a \in extRecv
  /\ a \notin hudWait \cup denyWait \cup pendingToolRequests
  /\ execPage[a] = 0
  /\ execReport[a] = <<>>
  /\ \A i \in 1..Len(toBackend) : toBackend[i].a # a

\* C11: a tool_result whose action id is not pending in the session's state
\* settles nothing and leaves the pending sets, the timers, the Run, its step
\* log and the candidates as they were.
C11_StaleResultIsNoOp ==
  [][\A s \in SessionIds, a \in ActionIds :
       (ToolResultTaken(a) /\ (sessions[s] = NoObj \/ a \notin pendingTools[sessions[s]]))
         => UNCHANGED <<pendingTools, timers, settled, run, runCancelled, runFinalSent,
                        runSteps, lastFindCandidates, finals, lastSent, sessions>>]_vars

\* C11 witness: a call was cancelled, and the tool_result sent for it afterwards
\* has been taken
C11_Witness ==
  \E a \in ActionIds : settled[a] = <<"CANCELLED">> /\ ResultConsumed(a)

\* the deadline of call a expires in this step: its timer goes away and the
\* backend takes no envelope
DeadlineExpires(a) ==
  /\ a \in timers
  /\ a \notin timers'
  /\ toBackend' = toBackend

\* C12: when the deadline of a call that got no tool_result expires, the call
\* settles with TIMEOUT as its only outcome and its entry leaves the pending
\* set in that step; a tool_result taken afterwards leaves the outcome TIMEOUT.
C12_TimeoutIsFinal ==
  /\ [][\A a \in ActionIds :
          DeadlineExpires(a) =>
            /\ settled[a] = <<>>
            /\ settled'[a] = <<"TIMEOUT">>
            /\ \A o \in Objs : a \notin pendingTools'[o]]_vars
  /\ [][\A a \in ActionIds :
          settled[a] = <<"TIMEOUT">> => settled'[a] = <<"TIMEOUT">>]_vars

\* C12 witness: a find call timed out and the tool_result the extension sent
\* for it was taken afterwards
C12_Witness ==
  \E a \in ActionIds :
    /\ callTool[a] = "browser_find"
    /\ settled[a] = <<"TIMEOUT">>
    /\ ResultConsumed(a)

TargetTools == {"browser_highlight", "browser_click", "browser_type"}

\* C13: a tool_request for highlight, click or type is sent, and a pending call
\* for it recorded, only in a step that starts with exactly one candidate in the
\* state of the session whose handler sends it; with none or several, nothing is
\* sent and nothing recorded.
C13_SingleCandidateAtDispatch ==
  [][\A a \in ActionIds :
       /\ (requests[a] = NoReq /\ requests'[a] # NoReq /\ requests'[a].tool \in TargetTools)
            => Len(lastFindCandidates[callOwner'[a]]) = 1
       /\ \A o \in Objs :
            (a \notin pendingTools[o] /\ a \in pendingTools'[o] /\ callTool'[a] \in TargetTools)
              => Len(lastFindCandidates[o]) = 1]_vars

\* C13 witness: a find succeeded, select_candidate narrowed its result, and a
\* click was dispatched
C13_Witness ==
  \E a, b \in ActionIds :
    /\ callTool[b] = "browser_find"
    /\ settled[b] = <<"ok">>
    /\ numSelects > 0
    /\ requests[a].tool = "browser_click"

\* the server takes frame m off the socket in this step
FrameTaken(m) ==
  /\ toBackend # <<>>
  /\ Head(toBackend) = m
  /\ toBackend' = Tail(toBackend)

\* what a frame that is not dispatched leaves alone: the registry, the runs and
\* their queues, the pending calls and their outcomes
SessionStateUnchanged ==
  UNCHANGED <<sessions, objPhase, run, runCancelled, runFinalSent, runSteps, runOwner,
              queue, keepAlive, pendingTools, callTool, callOwner, timers,
              lastFindCandidates, abortOps, numMsgs, numRuns, numCancels, settled, finals,
              cancelDone, requests, lastSent>>

\* C14: the step that takes a well-formed envelope whose token is not the
\* pairing token creates no session, starts no turn, settles no pending call,
\* cancels no run, and leaves the connection closing.
C14_BadTokenNotDispatched ==
  [][\A m \in InboundFrames :
       (FrameTaken(m) /\ normalizeMessage(m) /\ m.token # pairingToken)
         => (SessionStateUnchanged /\ ws' = "closing")]_vars

\* C14 witness: the socket is closing on a bad token while a run is open, a call
\* is pending and nothing has been cancelled
C14_Witness ==
  /\ ws = "closing"
  /\ \E o \in Objs : run[o] # NoRun /\ ~runCancelled[run[o]] /\ pendingTools[o] # {}

\* C15: the step that takes a frame that is not well-formed JSON, or lacks a
\* string type, sessionId or token, changes no session state and closes the
\* connection.
C15_MalformedDroppedAndClosed ==
  [][\A m \in InboundFrames :
       (FrameTaken(m) /\ ~normalizeMessage(m))
         => (SessionStateUnchanged /\ ws' # "open")]_vars

\* the backend takes a user_approval for action id a in this step
ApprovalTaken(a) ==
  /\ toBackend # <<>>
  /\ Head(toBackend).type = "user_approval"
  /\ Head(toBackend).a = a
  /\ toBackend' = Tail(toBackend)

\* a user_approval for action id a was already routed into the open Run
ApprovalRouted(a) ==
  \E r \in RunIds, approved \in BOOLEAN :
    \E i \in 1..Len(runSteps[r]) : runSteps[r][i] = ApprovalStep(a, approved)

\* C16: a user_approval for an action id whose approval was already routed
\* leaves the step log, the pending calls and the messages sent as they were,
\* and an approved click is executed once.
C16_SecondApprovalNoEffect ==
  /\ [][\A a \in ActionIds :
          (ApprovalTaken(a) /\ ApprovalRouted(a))
            => UNCHANGED <<runSteps, pendingTools, timers, settled, lastSent>>]_vars
  /\ [](\A a \in ActionIds : a \in approvedRecv => clicked[a] <= 1)

\* C17: while an action is the pending action, no other request takes its
\* place: the pending action changes only to none, and only when that action
\* is approved or rejected; a gated request that arrived meanwhile is the
\* pending action after that.
C17_PendingActionQueues ==
  [][\A a \in ActionIds :
       (pendingAction = a /\ pendingAction' # a)
         => /\ pendingAction' = NoAction
            /\ a \in approvedRecv' \cup rejectedRecv']_vars

\* nothing is in progress: no createSession awaited, no turn open or queued, no
\* cancelRun awaiting abort()
Quiescent ==
  /\ \A o \in Objs : objPhase[o] # "creating" /\ run[o] = NoRun /\ queue[o] = 0
  /\ \A r \in RunIds : abortOps[r] = 0

\* C18: with the connection open, once everything started by the accepted
\* user_message envelopes has run to its end, each of them has had an
\* assistant_final for its turn, a fault of the driver included.
C18_EveryTurnGetsFinal ==
  (ws = "open" /\ Quiescent) =>
    Cardinality({r \in RunIds : finals[r] # <<>>}) >= numMsgs

\* C19: no keep-alive assistant_delta ("...") leaves for a Run whose
\* assistant_final has been sent.
C19_NoFillerAfterFinal ==
  (lastSent.type = "assistant_delta" /\ lastSent.text = "...") => ~lastSent.finalSent

\* executeToolRequest reports the head of a's outcomes in this step
ReportSent(a) ==
  /\ execReport[a] # <<>>
  /\ execReport'[a] = Tail(execReport[a])

\* C20: every error of a tool_result the extension sends and every outcome the
\* broker settles a call with is a code of the taxonomy (or success); a caught
\* error that is a taxonomy code is reported as that code, and any other as
\* EXTENSION_NOT_READY.
C20_ClosedErrorVocabulary ==
  /\ [](\A i \in 1..Len(toBackend) :
          (toBackend[i].type = "tool_result" /\ ~toBackend[i].ok)
            => toBackend[i].error \in ErrorCodes)
  /\ [](\A a \in ActionIds : \A i \in 1..Len(settled[a]) :
          settled[a][i] \in ErrorCodes \cup {"ok"})
  /\ [][\A a \in ActionIds :
          (ReportSent(a) /\ ~Head(execReport[a]).ok)
            => toBackend'[Len(toBackend')].error =
                 (IF Head(execReport[a]).error \in ErrorCodes
                    THEN Head(execReport[a]).error
                    ELSE "EXTENSION_NOT_READY")]_vars

\* C20 witness: a call whose command never reached the page, because a chrome
\* API call rejected, was settled with EXTENSION_NOT_READY
C20_Witness ==
  \E a \in ActionIds :
    /\ settled[a] = <<"EXTENSION_NOT_READY">>
    /\ delivered[a] = 0
    /\ requests[a].tool = "browser_find"

\* the content script's response to the command of request a
PageResponse(a) ==
  handleToolMessage(Page, ToolAction(requests[a].tool), requests[a].arg)

\* the command of request a reached the content script, which answered with an
\* error code
PageRefused(a) ==
  /\ requests[a] # NoReq
  /\ requests[a].tool # "browser_navigate"
  /\ delivered[a] > 0
  /\ ~PageResponse(a).ok

\* C21: when the content script answers a command with an error code, the call
\* settles for the driver with that code, unless its deadline or a cancel ended
\* it first.
C21_PageErrorVerbatim ==
  \A a \in ActionIds :
    (PageRefused(a) /\ settled[a] # <<>> /\ settled[a][1] \notin {"TIMEOUT", "CANCELLED"})
      => settled[a][1] = PageResponse(a).error

\* C22: every dispatched tool_request, whatever its tool, carries a deadline of
\* at most 5000 ms, so its timer ends the wait no later than 5 seconds after
\* dispatch.
C22_FiveSecondDeadline ==
  \A a \in ActionIds :
    requests[a] # NoReq => requests[a].timeoutMs <= 5000

\* C23: the selector buildSelector returns for an element matches exactly one
\* element of the document it was built on.
C23_BuiltSelectorUnique ==
  built.op = "buildSelector" => Cardinality(querySelectorAll(doc, built.out)) = 1

\* the visible inputs with name q and placeholder Search
SearchInputs(page) ==
  {i \in 1..Len(page) :
     /\ page[i].tag = "input" /\ page[i].name = <<"q">> /\ page[i].placeholder = <<"Search">>
     /\ isVisible(page[i])}

\* no word of the query occurs in a field of the element that ranking reads
MatchesNoField(e, query) ==
  \A k \in 1..Len(query) :
    LET t == <<query[k]>> IN
    /\ ~Includes(normalizeText(getElementLabel(e)), t)
    /\ ~Includes(normalizeText(e.name), t)
    /\ ~Includes(normalizeText(e.placeholder), t)
    /\ ~Includes(normalizeText(e.role), t)
    /\ ~Includes(normalizeText(e.href), t)

\* C24: find `search box` on a document with one visible input of name q and
\* placeholder Search, whose other visible interactive elements match the query
\* in no field, returns exactly one candidate, and its selector matches that
\* input and nothing else.
C24_SearchBoxSingleCandidate ==
  ( /\ built.op = "find"
    /\ built.query = <<"search", "box">>
    /\ Cardinality(SearchInputs(doc)) = 1
    /\ \A i \in 1..Len(doc) :
         (i \notin SearchInputs(doc) /\ IsInteractive(doc[i]) /\ isVisible(doc[i]))
           => MatchesNoField(doc[i], built.query) )
  => /\ Len(built.out) = 1
     /\ querySelectorAll(doc, built.out[1].selector) = SearchInputs(doc)

\* C25: for a session id, at most one SessionState object exists or is being
\* created at any instant (every object here belongs to the one session id).
C25_OneSessionObject ==
  Cardinality({o \in Objs : objPhase[o] \in {"creating", "live"}}) <= 1

\* C26: a tool handler that reaches requestToolRoundTrip while the socket is
\* not open throws EXTENSION_NOT_READY at once; the step records no pending
\* call, arms no timer and sends no tool_request.
C26_NotOpenFailsAtOnce ==
  [][(ws # "open" /\ numActions' = numActions + 1)
       => /\ lastReturn' = Thrown(lastReturn'.tool, "EXTENSION_NOT_READY")
          /\ pendingTools' = pendingTools
          /\ timers' = timers
          /\ callTool' = callTool
          /\ requests' = requests
          /\ lastSent' = lastSent]_vars

\* C26 witness: after the socket closed, a browser_find call with a query was
\* refused with EXTENSION_NOT_READY and no request exists under its action id
C26_Witness ==
  /\ ws = "closed"
  /\ numActions > 0
  /\ lastReturn = Thrown("browser_find", "EXTENSION_NOT_READY")
  /\ requests[numActions] = NoReq
  /\ callTool[numActions] = "none"

\* C27: once the connection has closed and the teardown its close handler
\* started has finished, no SessionState of that connection (every one here) has
\* a pending call or an armed timer, none is subscribed to the driver, and none
\* is in the registry.
C27_CloseTearsDownSessions ==
  (ws = "closed" /\ \A o \in Objs : objPhase[o] # "closing")
    => /\ \A o \in Objs : pendingTools[o] = {} /\ ~Wired(o)
       /\ timers = {}
       /\ \A s \in SessionIds : sessions[s] = NoObj

\* C28: the step that takes a well-formed envelope with the pairing token, of
\* type user_message, user_approval, cancel or tool_result, for a session id
\* that is not in the registry, starts the creation of a SessionState.
C28_AnyEnvelopeCreatesSession ==
  [][\A m \in InboundFrames :
       ( /\ FrameTaken(m)
         /\ normalizeMessage(m) /\ m.token = pairingToken
         /\ m.type \in {"user_message", "user_approval", "cancel", "tool_result"}
         /\ sessions[m.sessionId] = NoObj )
       => \E o \in Objs : objPhase[o] = "free" /\ objPhase'[o] = "creating"]_vars

\* C29: whenever a browser_find call returns a result to the driver, for any
\* query, the candidate set of its session is that result's candidates.
C29_FindResultIsCandidateSet ==
  [][(lastReturn' # lastReturn /\ lastReturn'.tool = "browser_find" /\ lastReturn'.ok)
       => \A s \in SessionIds :
            sessions[s] # NoObj => lastFindCandidates'[sessions[s]] = lastReturn'.candidates]_vars

\* C30: a browser_select_candidate call whose id is in the candidate set of its
\* SessionState returns that candidate and leaves the set holding it alone; a call whose id
\* is not in the set throws NOT_FOUND, sends nothing and leaves the set as it
\* was.
C30_SelectNarrowsOrFails ==
  [][(lastReturn' # lastReturn /\ lastReturn'.tool = "browser_select_candidate")
       => LET o == lastReturn'.o
              hits == SelectSeq(lastFindCandidates[o], LAMBDA c : c.id = lastReturn'.id) IN
            IF hits = <<>>
              THEN /\ ~lastReturn'.ok /\ lastReturn'.error = "NOT_FOUND"
                   /\ lastFindCandidates' = lastFindCandidates
                   /\ lastSent' = lastSent /\ requests' = requests /\ runSteps' = runSteps
              ELSE /\ lastReturn'.ok /\ lastReturn'.candidates = <<hits[1]>>
                   /\ lastFindCandidates'[o] = <<hits[1]>>]_vars

\* C30 witness: a call with an id that is not among the two candidates of the
\* last find was refused with NOT_FOUND, and both candidates are still there
C30_Witness ==
  /\ lastReturn.tool = "browser_select_candidate"
  /\ lastReturn.error = "NOT_FOUND"
  /\ lastReturn.id = "cand-9"
  /\ DriverActive(lastReturn.o)
  /\ lastFindCandidates[lastReturn.o] = <<Cand1, Cand2>>

\* C31: for an approved action id whose command the page accepts (so that no
\* re-injection is involved), the command reaches the content script at most
\* once, and at most one execution is under way or waiting to send its
\* tool_result, however often ui_approval arrives for the id.
C31_ApprovedDeliveredOnce ==
  \A a \in ActionIds :
    (a \in approvedRecv /\ PageResponse(a).ok)
      => /\ delivered[a] <= 1
         /\ execPage[a] + Len(execReport[a]) <= 1

\* C32: once the broker call of a click or type that awaits approval has
\* settled with TIMEOUT, an approval given afterwards starts no execution and
\* delivers no command to the page.
C32_NoExecutionAfterTimeout ==
  [][\A a \in ActionIds :
       ( /\ Gated(a) /\ a \notin approvedRecv
         /\ requests[a].tool \in {"browser_click", "browser_type"}
         /\ settled[a] = <<"TIMEOUT">> )
       => (execPage'[a] = execPage[a] /\ delivered'[a] = delivered[a])]_vars

\* C33: a click command that was handed to the tab once is applied to the page
\* at most once, also when an earlier command was refused by the content
\* script and the background re-injected the script.
C33_AppliedAtMostOnce ==
  \A a \in ActionIds :
    (requests[a] # NoReq /\ requests[a].tool = "browser_click" /\ delivered[a] <= 1)
      => clicked[a] <= 1

\* C34: when cancelRun resumes after the driver abort, for a cancel received
\* while Run r was active, it sets finalSent on no other Run and sends
\* "Cancelled by user." for no other Run.
C34_CancelTouchesOwnRunOnly ==
  [][\A r \in RunIds :
       abortOps'[r] < abortOps[r]
         => \A later \in RunIds \ {r} :
              /\ runFinalSent'[later] = runFinalSent[later]
              /\ finals'[later] = finals[later]]_vars

\* C35: once Stop was pressed while an action was the pending action, no
\* execution of that action is started afterwards, whether the socket was open
\* at that moment or not, and whatever approval or reconnect follows.
C35_StoppedNeverExecuted ==
  [][\A a \in ActionIds :
       gateLog[a].stopped => execPage'[a] <= execPage[a]]_vars

\* C36: at the step that dispatches a highlight, click or type tool_request,
\* the session has exactly one candidate and the request carries that
\* candidate's selector.
C36_RequestCarriesCandidateSelector ==
  [][\A a \in ActionIds :
       (requests[a] = NoReq /\ requests'[a] # NoReq /\ requests'[a].tool \in TargetTools)
         => LET cands == lastFindCandidates[callOwner'[a]] IN
            /\ Len(cands) = 1
            /\ requests'[a].arg = cands[1].selector]_vars

\* C37: a selector that buildSelector returns after finding it unique in the
\* document matches the element it was built for, and no other element.
C37_AcceptedSelectorResolvesToInput ==
  (built.op = "buildSelector" /\ isUniqueSelector(doc, built.out))
    => querySelectorAll(doc, built.out) = {built.element}

\* C38: a find result has at most 8 candidates, one per ranked element; the
\* ranked elements are visible, score above zero and are in non-increasing
\* score order; no visible interactive element left out scores higher than one
\* that is listed; an empty query gives no candidates.
C38_FindResultRankedAndCapped ==
  built.op = "find" =>
    LET r == built.ranked
        score(i) == rankCandidate(doc[i], built.query) IN
    /\ Len(built.out) <= 8
    /\ Len(built.out) = Len(r)
    /\ \A k \in 1..Len(r) : isVisible(doc[r[k]]) /\ score(r[k]) > 0
    /\ \A k \in 1..(Len(r) - 1) : score(r[k]) >= score(r[k + 1])
    /\ \A i \in 1..Len(doc) :
         (IsInteractive(doc[i]) /\ isVisible(doc[i]) /\ \A k \in 1..Len(r) : r[k] # i)
           => \A k \in 1..Len(r) : score(i) <= score(r[k])
    /\ (normalizeText(built.query) = <<>> => built.out = <<>>)

\* C38 witness: a find on a document with more than 8 visible elements that
\* score, where the first element of the document scores lowest and is the
\* one left out, and a hidden element is left out as well
C38_Witness ==
  /\ built.op = "find"
  /\ built.query = <<"go">>
  /\ Len(built.ranked) = 8
  /\ Len(doc) > 9
  /\ \E i \in 1..Len(doc) : ~isVisible(doc[i])
  /\ doc[1].tag = "input" /\ isVisible(doc[1])
  /\ \A k \in 1..8 : built.ranked[k] # 1

\* every token of the query is in some field of the element, and no field
\* holds the whole query
TokenMatchOnly(e, query) ==
  LET fields == {normalizeText(getElementLabel(e)), normalizeText(e.name),
                 normalizeText(e.placeholder), normalizeText(e.role),
                 normalizeText(e.href)} IN
  /\ query # <<>>
  /\ \A f \in fields : ~Includes(f, query)
  /\ \A k \in 1..Len(query) : \E f \in fields : Includes(f, <<query[k]>>)

\* C39: for the query of a find, an element whose label contains the whole
\* normalized query scores strictly higher than an element that matches the
\* query token by token only.
C39_WholeMatchOutranksTokens ==
  built.op = "find" =>
    LET query == normalizeText(built.query) IN
    \A i, j \in 1..Len(doc) :
      ( /\ query # <<>>
        /\ Includes(normalizeText(getElementLabel(doc[i])), query)
        /\ TokenMatchOnly(doc[j], query) )
      => rankCandidate(doc[i], built.query) > rankCandidate(doc[j], built.query)

\* C40: a highlight, click or type command whose selector resolves to no
\* element or to an element that is not visible is answered with NOT_FOUND and
\* does nothing to the page.
C40_NoTargetNoEffect ==
  [][(built'.op = "tool" /\ built' # built)
       => LET target == getTarget(doc, built'.selector) IN
          (target = 0 \/ ~isVisible(doc[target]))
            => /\ ~built'.out.ok
               /\ built'.out.error = "NOT_FOUND"
               /\ built'.effects = {}
               /\ doc' = doc]_vars

====
